---- MODULE Spec2Model ----
(***************************************************************************)
(* Backtest engine, portfolio ledger, simulated execution and recorder of  *)
(* the Algorithmic-Trading-Project, as a state machine.                    *)
(*                                                                         *)
(* Monetary values are decimal.Decimal in the source.  A Decimal is a      *)
(* decimal floating point number: every arithmetic result is rounded       *)
(* half-even to the context precision (28 significant digits in CPython).  *)
(* Here a Decimal is the record [c |-> coefficient, e |-> exponent] of     *)
(* value c * 10^e, kept normalised (no trailing zero in c) so that record  *)
(* equality is numeric equality, and the precision is DecPrec digits.      *)
(***************************************************************************)
EXTENDS Integers, Sequences, FiniteSets, TLC

\* Significant digits kept by every Decimal operation (the width of the
\* arithmetic, scaled down from CPython's 28 to what TLC's integers hold).
DecPrec == 4

\* Longest bar sequence a run is given.
MaxBars == 3

\* Most fills applied to a ledger driven directly.
MaxFills == 3

\* Largest lookback a shipped strategy is constructed with.
MaxLookback == 3

\* Most orders given to an execution simulator driven directly.
MaxExecutes == 2

\* Significant bits kept by every float operation (the width of the
\* arithmetic, scaled down from the 53 of a Python float).
FloatBits == 9

\* Most states of a recorder log given to the metrics directly.
MaxStates == 5

\* The number of method calls made on a ledger and an execution simulator
\* driven directly.
MaxCalls == 3

---------------------------------------------------------------------------
(* Decimal arithmetic                                                      *)

RECURSIVE Pow10(_)
Pow10(n) ==
    IF n <= 0 THEN 1 ELSE 10 * Pow10(n - 1)

Abs(x) ==
    IF x < 0 THEN -x ELSE x

Sgn(x) ==
    IF x < 0 THEN -1 ELSE IF x = 0 THEN 0 ELSE 1

RECURSIVE NumDigits(_)
NumDigits(a) ==
    IF a < 10 THEN 1 ELSE 1 + NumDigits(a \div 10)

\* The normal form of c * 10^e.
RECURSIVE Norm(_, _)
Norm(c, e) ==
    IF c = 0 THEN [c |-> 0, e |-> 0]
    ELSE IF Abs(c) % 10 = 0 THEN Norm(Sgn(c) * (Abs(c) \div 10), e + 1)
    ELSE [c |-> c, e |-> e]

\* q with the discarded part r out of m rounded half-even.
HalfEven(q, r, m) ==
    IF 2 * r > m \/ (2 * r = m /\ q % 2 = 1) THEN q + 1 ELSE q

\* c * 10^e rounded to DecPrec significant digits.
RoundCoef(c, e) ==
    LET a == Abs(c)
        k == NumDigits(a) - DecPrec
    IN  IF k <= 0 THEN Norm(c, e)
        ELSE Norm(Sgn(c) * HalfEven(a \div Pow10(k), a % Pow10(k), Pow10(k)), e + k)

\* Decimal(n) for an integer n.
D(n) ==
    Norm(n, 0)

Zero ==
    D(0)

One ==
    D(1)

MinExp(a, b) ==
    IF a.e < b.e THEN a.e ELSE b.e

\* The coefficient of a at exponent e (e <= a.e).
Aligned(a, e) ==
    a.c * Pow10(a.e - e)

DecAdd(a, b) ==
    RoundCoef(Aligned(a, MinExp(a, b)) + Aligned(b, MinExp(a, b)), MinExp(a, b))

DecNeg(a) ==
    [c |-> -a.c, e |-> a.e]

DecSub(a, b) ==
    DecAdd(a, DecNeg(b))

DecMul(a, b) ==
    RoundCoef(a.c * b.c, a.e + b.e)

\* Long division of r/d continued from quotient q until the quotient has
\* DecPrec digits or the division is exact; s counts the digits produced.
RECURSIVE LongDiv(_, _, _, _)
LongDiv(q, r, d, s) ==
    IF r = 0 \/ q >= Pow10(DecPrec - 1) THEN [q |-> q, r |-> r, s |-> s]
    ELSE LongDiv(q * 10 + ((r * 10) \div d), (r * 10) % d, d, s + 1)

\* a / b for b # 0, rounded half-even to DecPrec digits.
DecDiv(a, b) ==
    LET ca == Abs(a.c)
        cb == Abs(b.c)
        l  == LongDiv(ca \div cb, ca % cb, cb, 0)
    IN  Norm(Sgn(a.c) * Sgn(b.c) * HalfEven(l.q, l.r, cb), a.e - b.e - l.s)

DecAbs(a) ==
    [c |-> Abs(a.c), e |-> a.e]

DecLt(a, b) ==
    Aligned(a, MinExp(a, b)) < Aligned(b, MinExp(a, b))

DecGt(a, b) ==
    DecLt(b, a)

---------------------------------------------------------------------------
(* Float arithmetic (reporting/metrics.py).  A Python float is a binary    *)
(* floating point number: every arithmetic result is rounded half-even to  *)
(* the 53 significant bits of the format.  Here a float is the record      *)
(* [m |-> significand, x |-> exponent] of value m * 2^x, kept normalised   *)
(* (m odd, or m = 0 and x = 0), and the precision is FloatBits bits.  The  *)
(* exponent is not bounded: no value the metrics compute from a recorder   *)
(* log leaves the exponent range of the format.  x ** 2 and x ** 0.5 are   *)
(* taken as the correctly rounded square and square root.                  *)

RECURSIVE Pow2(_)
Pow2(n) ==
    IF n <= 0 THEN 1 ELSE 2 * Pow2(n - 1)

RECURSIVE BitLen(_)
BitLen(a) ==
    IF a = 0 THEN 0 ELSE 1 + BitLen(a \div 2)

\* The normal form of m * 2^x.
RECURSIVE FNorm(_, _)
FNorm(m, x) ==
    IF m = 0 THEN [m |-> 0, x |-> 0]
    ELSE IF Abs(m) % 2 = 0 THEN FNorm(Sgn(m) * (Abs(m) \div 2), x + 1)
    ELSE [m |-> m, x |-> x]

FZero ==
    FNorm(0, 0)

\* The significands of FloatBits bits are MinSignificand..MaxSignificand - 1.
MaxSignificand ==
    Pow2(FloatBits)

MinSignificand ==
    Pow2(FloatBits - 1)

\* The divisor d doubled j times, until a / d is below 2^FloatBits.
RECURSIVE ScaleDown(_, _, _)
ScaleDown(a, d, j) ==
    IF a < d * MaxSignificand THEN [d |-> d, j |-> j]
    ELSE ScaleDown(a, 2 * d, j + 1)

\* The dividend a doubled k times, until a / d is at least 2^(FloatBits-1).
RECURSIVE ScaleUp(_, _, _)
ScaleUp(a, d, k) ==
    IF a >= d * MinSignificand THEN [a |-> a, k |-> k]
    ELSE ScaleUp(2 * a, d, k + 1)

\* (n / d) * 2^x for d > 0, rounded half-even to FloatBits bits.
FRound(n, d, x) ==
    IF n = 0 THEN FZero
    ELSE LET dn == ScaleDown(Abs(n), d, 0)
             up == ScaleUp(Abs(n), dn.d, 0)
         IN  FNorm(Sgn(n) * HalfEven(up.a \div dn.d, up.a % dn.d, dn.d),
                   x + dn.j - up.k)

\* float(n) for an integer n.
FInt(n) ==
    FRound(n, 1, 0)

\* float(Decimal)
float(dec) ==
    IF dec.e >= 0 THEN FRound(dec.c * Pow10(dec.e), 1, 0)
    ELSE FRound(dec.c, Pow10(-dec.e), 0)

\* The exponent of the bit above the leading bit of a (a # 0).
Top(a) ==
    a.x + BitLen(Abs(a.m))

FNeg(a) ==
    [m |-> -a.m, x |-> a.x]

\* a + b.  A term more than FloatBits + 1 bits below the other is below a
\* quarter of its last bit, and is rounded away.
FAdd(a, b) ==
    IF a.m = 0 THEN b
    ELSE IF b.m = 0 THEN a
    ELSE IF Top(a) - Top(b) >= FloatBits + 2 THEN a
    ELSE IF Top(b) - Top(a) >= FloatBits + 2 THEN b
    ELSE LET xmin == IF a.x < b.x THEN a.x ELSE b.x
         IN  FRound(a.m * Pow2(a.x - xmin) + b.m * Pow2(b.x - xmin), 1, xmin)

FSub(a, b) ==
    FAdd(a, FNeg(b))

FMul(a, b) ==
    FRound(a.m * b.m, 1, a.x + b.x)

\* a / b for b # 0.
FDiv(a, b) ==
    FRound(a.m * Sgn(b.m), Abs(b.m), a.x - b.x)

\* a < b: the sign of a - b, which rounding keeps.
FLt(a, b) ==
    FSub(a, b).m < 0

FGt(a, b) ==
    FLt(b, a)

FLe(a, b) ==
    ~FLt(b, a)

\* The integer square root.
RECURSIVE ISqrt(_)
ISqrt(n) ==
    IF n < 2 THEN n
    ELSE LET r == 2 * ISqrt(n \div 4)
         IN  IF (r + 1) * (r + 1) <= n THEN r + 1 ELSE r

\* m * 4^j for the least j >= 0 that makes it at least 4^FloatBits.
RECURSIVE ScaleSquare(_, _)
ScaleSquare(m, j) ==
    IF m >= MaxSignificand * MaxSignificand THEN [m |-> m, j |-> j]
    ELSE ScaleSquare(4 * m, j + 1)

\* a ** 0.5 for a >= 0.  The root of the scaled significand has more than
\* FloatBits bits, so a root that is not exact rounds as its integer part
\* and a half does.
FSqrt(a) ==
    IF a.m = 0 THEN FZero
    ELSE LET odd == a.x % 2 = 1
             sq == ScaleSquare(IF odd THEN 2 * a.m ELSE a.m, 0)
             half == (IF odd THEN a.x - 1 ELSE a.x) \div 2
             r == ISqrt(sq.m)
         IN  IF r * r = sq.m THEN FRound(r, 1, half - sq.j)
             ELSE FRound(2 * r + 1, 2, half - sq.j)

---------------------------------------------------------------------------
(* Domain types (core/types.py)                                            *)

BUY ==
    "BUY"

SELL ==
    "SELL"

\* The symbol every order of a run carries.
Symbol ==
    "BTCUSDT"

DecMax(a, b) ==
    IF DecLt(a, b) THEN b ELSE a

DecMin(a, b) ==
    IF DecLt(a, b) THEN a ELSE b

Bar(ts, open, close) ==
    [timestamp |-> ts, open |-> open, high |-> DecMax(open, close),
     low |-> DecMin(open, close), close |-> close, volume |-> Zero]

Order(symbol, side, quantity, timestamp) ==
    [symbol |-> symbol, side |-> side, quantity |-> quantity, timestamp |-> timestamp]

Fill(symbol, side, quantity, price, fee, timestamp) ==
    [symbol |-> symbol, side |-> side, quantity |-> quantity, price |-> price,
     fee |-> fee, timestamp |-> timestamp]

Position(quantity, average_price) ==
    [quantity |-> quantity, average_price |-> average_price]

is_flat(position) ==
    position.quantity = Zero

\* A PortfolioState object; its position field is a reference (an index into
\* the store of Position objects).
PortfolioState(cash, position, equity, realized_pnl, unrealized_pnl, timestamp) ==
    [cash |-> cash, position |-> position, equity |-> equity,
     realized_pnl |-> realized_pnl, unrealized_pnl |-> unrealized_pnl,
     timestamp |-> timestamp]

---------------------------------------------------------------------------
(* Simulated execution (execution/simulated.py)                            *)

SimulatedExecution(fee_pct, slippage_pct) ==
    [_fee_pct |-> fee_pct, _slippage_pct |-> slippage_pct]

\* A plausible slip: the reference price is the bar's close.
fill_price_at_close(ex, order, fill_bar) ==
    IF order.side = BUY
    THEN DecMul(fill_bar.close, DecAdd(One, ex._slippage_pct))
    ELSE DecMul(fill_bar.close, DecSub(One, ex._slippage_pct))

fill_price(ex, order, fill_bar) ==
    IF order.side = BUY
    THEN DecMul(fill_bar.open, DecAdd(One, ex._slippage_pct))
    ELSE DecMul(fill_bar.open, DecSub(One, ex._slippage_pct))

execute(ex, order, fill_bar) ==
    LET price    == fill_price(ex, order, fill_bar)
        notional == DecMul(order.quantity, price)
        fee      == DecMul(notional, ex._fee_pct)
    IN  Fill(order.symbol, order.side, order.quantity, price, fee, fill_bar.timestamp)

---------------------------------------------------------------------------
(* Portfolio ledger (portfolio/portfolio.py).  Position objects live in a  *)
(* store `positions` (a sequence; a reference is an index); the ledger     *)
(* holds a reference to its current Position.                              *)

Portfolio(cash, position, realized_pnl) ==
    [_cash |-> cash, _position |-> position, _realized_pnl |-> realized_pnl]

\* A plausible slip: the blend ignores the quantities.
buy_average_unweighted(old_qty, old_avg, qty, price) ==
    IF DecAdd(old_qty, qty) # Zero
    THEN DecDiv(DecAdd(old_avg, price), D(2))
    ELSE Zero

\* new_avg of a buy.
buy_average(old_qty, old_avg, qty, price) ==
    IF DecAdd(old_qty, qty) # Zero
    THEN DecDiv(DecAdd(DecMul(old_qty, old_avg), DecMul(qty, price)), DecAdd(old_qty, qty))
    ELSE Zero

\* A plausible slip: the sell re-marks the remaining position at the sale price.
sell_average_remarked(old_avg, new_qty, price) ==
    IF new_qty # Zero THEN price ELSE Zero

\* A plausible slip: the average cost is kept when the position closes.
sell_average_kept(old_avg, new_qty, price) ==
    old_avg

\* new_avg of a sell (the sale price is not read).
sell_average(old_avg, new_qty, price) ==
    IF new_qty # Zero THEN old_avg ELSE Zero

\* A plausible slip: the realized PnL of a sell is taken against the sale
\* price's cost of zero (the whole proceeds).
sell_realized_proceeds(realized, old_avg, qty, price, fee) ==
    DecAdd(realized, DecSub(DecMul(price, qty), fee))

\* _realized_pnl after a sell.
sell_realized(realized, old_avg, qty, price, fee) ==
    DecAdd(realized, DecSub(DecMul(DecSub(price, old_avg), qty), fee))

\* A plausible slip: the fee of a buy is not charged to cash.
buy_cash_no_fee(cash, qty, price, fee) ==
    DecSub(cash, DecMul(qty, price))

buy_cash(cash, qty, price, fee) ==
    DecSub(cash, DecAdd(DecMul(qty, price), fee))

sell_cash(cash, qty, price, fee) ==
    DecAdd(cash, DecSub(DecMul(qty, price), fee))

\* A plausible slip: a sell of more than is held is turned down, and the
\* ledger is left as it was.
apply_fill_guarded(pf, positions, fill) ==
    LET old == positions[pf._position]
        qty == fill.quantity
        price == fill.price
        fee == fill.fee
    IN  IF fill.side = BUY
        THEN [portfolio |->
                Portfolio(buy_cash(pf._cash, qty, price, fee),
                          Len(positions) + 1, pf._realized_pnl),
              positions |->
                Append(positions,
                       Position(DecAdd(old.quantity, qty),
                                buy_average(old.quantity, old.average_price, qty, price)))]
        ELSE IF DecGt(qty, old.quantity)
        THEN [portfolio |-> pf, positions |-> positions]
        ELSE [portfolio |->
                Portfolio(sell_cash(pf._cash, qty, price, fee),
                          Len(positions) + 1,
                          sell_realized(pf._realized_pnl, old.average_price, qty, price, fee)),
              positions |->
                Append(positions,
                       Position(DecSub(old.quantity, qty),
                                sell_average(old.average_price, DecSub(old.quantity, qty), price)))]

\* apply_fill: the ledger and the store after the fill.  The ledger's
\* position is rebound to a new Position object; no object is changed.
apply_fill(pf, positions, fill) ==
    LET old == positions[pf._position]
        qty == fill.quantity
        price == fill.price
        fee == fill.fee
    IN  IF fill.side = BUY
        THEN [portfolio |->
                Portfolio(buy_cash(pf._cash, qty, price, fee),
                          Len(positions) + 1, pf._realized_pnl),
              positions |->
                Append(positions,
                       Position(DecAdd(old.quantity, qty),
                                buy_average(old.quantity, old.average_price, qty, price)))]
        ELSE [portfolio |->
                Portfolio(sell_cash(pf._cash, qty, price, fee),
                          Len(positions) + 1,
                          sell_realized(pf._realized_pnl, old.average_price, qty, price, fee)),
              positions |->
                Append(positions,
                       Position(DecSub(old.quantity, qty),
                                sell_average(old.average_price, DecSub(old.quantity, qty), price)))]

equity_at(pf, positions, price) ==
    DecAdd(pf._cash, DecMul(positions[pf._position].quantity, price))

unrealized_pnl_at(pf, positions, price) ==
    IF is_flat(positions[pf._position]) THEN Zero
    ELSE DecMul(DecSub(price, positions[pf._position].average_price),
                positions[pf._position].quantity)

\* A plausible slip: one PortfolioState object is kept and refreshed in
\* place, so every holder of an earlier snapshot sees the new values.
state_at_cached(pf, positions, snapshots, price, timestamp) ==
    LET st == PortfolioState(pf._cash, Len(positions) + 1,
                             equity_at(pf, positions, price), pf._realized_pnl,
                             unrealized_pnl_at(pf, positions, price), timestamp)
        copy == Position(positions[pf._position].quantity,
                         positions[pf._position].average_price)
    IN  IF snapshots = <<>>
        THEN [state |-> 1, positions |-> Append(positions, copy),
              snapshots |-> <<st>>]
        ELSE [state |-> 1, positions |-> Append(positions, copy),
              snapshots |-> [snapshots EXCEPT ![1] = st]]

\* A plausible slip: the snapshot marks the ledger's own Position object to
\* the price before copying it.
state_at_remarking(pf, positions, snapshots, price, timestamp) ==
    LET st == PortfolioState(pf._cash, Len(positions) + 1,
                             equity_at(pf, positions, price), pf._realized_pnl,
                             unrealized_pnl_at(pf, positions, price), timestamp)
        copy == Position(positions[pf._position].quantity, price)
    IN  [state |-> Len(snapshots) + 1,
         positions |-> Append([positions EXCEPT ![pf._position].average_price = price],
                              copy),
         snapshots |-> Append(snapshots, st)]

\* state_at: a new PortfolioState object holding a new Position object that
\* copies the ledger's; `state` is the reference returned.
state_at(pf, positions, snapshots, price, timestamp) ==
    LET st == PortfolioState(pf._cash, Len(positions) + 1,
                             equity_at(pf, positions, price), pf._realized_pnl,
                             unrealized_pnl_at(pf, positions, price), timestamp)
        copy == Position(positions[pf._position].quantity,
                         positions[pf._position].average_price)
    IN  [state |-> Len(snapshots) + 1, positions |-> Append(positions, copy),
         snapshots |-> Append(snapshots, st)]

\* What a holder of the reference `ref` reads from a snapshot.
StateValue(positions, snapshots, ref) ==
    [cash |-> snapshots[ref].cash,
     quantity |-> positions[snapshots[ref].position].quantity,
     average_price |-> positions[snapshots[ref].position].average_price,
     equity |-> snapshots[ref].equity,
     realized_pnl |-> snapshots[ref].realized_pnl,
     unrealized_pnl |-> snapshots[ref].unrealized_pnl,
     timestamp |-> snapshots[ref].timestamp]

\* What the ledger's properties (cash, position, realized_pnl) read.
LedgerValue(pf, positions) ==
    [cash |-> pf._cash,
     quantity |-> positions[pf._position].quantity,
     average_price |-> positions[pf._position].average_price,
     realized_pnl |-> pf._realized_pnl]

\* Portfolio(initial_cash) and the store holding its flat Position.
NewPortfolio(initial_cash) ==
    [portfolio |-> Portfolio(initial_cash, 1, Zero),
     positions |-> <<Position(Zero, Zero)>>]

---------------------------------------------------------------------------
(* Recorder (backtest/recorder.py): references to the recorded states, and *)
(* the fills.                                                              *)

Recorder(states, trades) ==
    [_states |-> states, _trades |-> trades]

record_state(recorder, state) ==
    Recorder(Append(recorder._states, state), recorder._trades)

record_fill(recorder, fill) ==
    Recorder(recorder._states, Append(recorder._trades, fill))

---------------------------------------------------------------------------
(* Strategies (strategies/).  ScriptStrategy stands for any deterministic  *)
(* implementation of Strategy.next on a given run: its k-th call returns   *)
(* the k-th target of its script.                                          *)

ScriptStrategy(targets) ==
    [kind |-> "script", targets |-> targets, calls |-> 0]

MomentumStrategy(lookback, size) ==
    [kind |-> "momentum", _lookback |-> lookback, _size |-> size, _closes |-> <<>>]

DualMAStrategy(fast_lookback, slow_lookback, size) ==
    [kind |-> "dual_ma", _fast |-> fast_lookback, _slow |-> slow_lookback,
     _size |-> size, _closes |-> <<>>]

\* What raising nothing looks like in a call's result.
NoError ==
    "none"

\* A plausible slip: the guard lets a lookback of zero through.
MomentumStrategy_init_nonnegative(lookback, size) ==
    IF lookback < 0 THEN [raised |-> "ValueError"]
    ELSE [raised |-> NoError, object |-> MomentumStrategy(lookback, size)]

\* MomentumStrategy(lookback, size) as a call: the error raised, or the
\* object constructed.
MomentumStrategy_init(lookback, size) ==
    IF lookback < 1 THEN [raised |-> "ValueError"]
    ELSE [raised |-> NoError, object |-> MomentumStrategy(lookback, size)]

\* DualMAStrategy(fast_lookback, slow_lookback, size) as a call.
DualMAStrategy_init(fast_lookback, slow_lookback, size) ==
    IF fast_lookback < 1 \/ slow_lookback < 1 THEN [raised |-> "ValueError"]
    ELSE IF fast_lookback >= slow_lookback THEN [raised |-> "ValueError"]
    ELSE [raised |-> NoError,
          object |-> DualMAStrategy(fast_lookback, slow_lookback, size)]

\* deque(maxlen).append: a full deque drops its oldest element, and a deque
\* of maxlen 0 keeps nothing.
DequeAppend(q, x, maxlen) ==
    IF maxlen = 0 THEN <<>>
    ELSE IF Len(q) >= maxlen THEN Append(Tail(q), x) ELSE Append(q, x)

\* sum() of Decimals: 0 + q[1] + q[2] + ...
RECURSIVE DecSum(_)
DecSum(q) ==
    IF q = <<>> THEN Zero
    ELSE DecAdd(DecSum(SubSeq(q, 1, Len(q) - 1)), q[Len(q)])

\* list(q)[-n:] for n >= 0 (q[-0:] is the whole list).
LastN(q, n) ==
    SubSeq(q, IF n > 0 /\ Len(q) > n THEN Len(q) - n + 1 ELSE 1, Len(q))

\* A plausible slip: the warm-up ends one call early.
momentum_next_early(st, bar) ==
    LET closes == DequeAppend(st._closes, bar.close, st._lookback)
        ma == DecDiv(DecSum(closes), D(Len(closes)))
    IN  [strategy |-> [st EXCEPT !._closes = closes],
         raised |-> NoError,
         target |-> IF Len(closes) < st._lookback - 1 THEN Zero
                    ELSE IF DecGt(bar.close, ma) THEN st._size ELSE Zero]

\* MomentumStrategy.next: the strategy after the call, and the target
\* returned or the error raised (a division by len(_closes) = 0).
momentum_next(st, bar) ==
    LET closes == DequeAppend(st._closes, bar.close, st._lookback)
        ma == DecDiv(DecSum(closes), D(Len(closes)))
    IN  IF Len(closes) >= st._lookback /\ Len(closes) = 0
        THEN [strategy |-> [st EXCEPT !._closes = closes],
              raised |-> "ZeroDivisionError"]
        ELSE [strategy |-> [st EXCEPT !._closes = closes],
              raised |-> NoError,
              target |-> IF Len(closes) < st._lookback THEN Zero
                         ELSE IF DecGt(bar.close, ma) THEN st._size ELSE Zero]

\* A plausible slip: the warm-up waits for the fast window only.
dual_ma_next_fast_warmup(st, bar) ==
    LET closes == DequeAppend(st._closes, bar.close, st._slow)
        fast_ma == DecDiv(DecSum(LastN(closes, st._fast)), D(st._fast))
        slow_ma == DecDiv(DecSum(closes), D(st._slow))
    IN  [strategy |-> [st EXCEPT !._closes = closes],
         raised |-> NoError,
         target |-> IF Len(closes) < st._fast THEN Zero
                    ELSE IF DecGt(fast_ma, slow_ma) THEN st._size ELSE Zero]

\* DualMAStrategy.next: as above; the divisions are by _fast and _slow.
dual_ma_next(st, bar) ==
    LET closes == DequeAppend(st._closes, bar.close, st._slow)
        fast_ma == DecDiv(DecSum(LastN(closes, st._fast)), D(st._fast))
        slow_ma == DecDiv(DecSum(closes), D(st._slow))
    IN  IF Len(closes) >= st._slow /\ (st._fast = 0 \/ st._slow = 0)
        THEN [strategy |-> [st EXCEPT !._closes = closes],
              raised |-> "ZeroDivisionError"]
        ELSE [strategy |-> [st EXCEPT !._closes = closes],
              raised |-> NoError,
              target |-> IF Len(closes) < st._slow THEN Zero
                         ELSE IF DecGt(fast_ma, slow_ma) THEN st._size ELSE Zero]

script_next(st) ==
    [strategy |-> [st EXCEPT !.calls = st.calls + 1],
     raised |-> NoError,
     target |-> st.targets[st.calls + 1]]

\* strategy.next(bar, state): the target, and the strategy after the call.
strategy_next(st, bar, state) ==
    IF st.kind = "momentum" THEN momentum_next(st, bar)
    ELSE IF st.kind = "dual_ma" THEN dual_ma_next(st, bar)
    ELSE script_next(st)

---------------------------------------------------------------------------
(* Metrics (reporting/metrics.py).  A call's result is the record          *)
(* [raised |-> NoError, value |-> v] when it returns v, and                 *)
(* [raised |-> error] when it raises.  An Optional[float] is a tuple: None *)
(* is the empty tuple, and a float f is <<f>>.                             *)

Returned(v) ==
    [raised |-> NoError, value |-> v]

Raise(error) ==
    [raised |-> error]

\* The rest of a function after a call: what F makes of the call's value,
\* or the error the call raised.
Then(r, F(_)) ==
    IF r.raised # NoError THEN r ELSE F(r.value)

None ==
    <<>>

\* a / b on floats
truediv(a, b) ==
    IF b.m = 0 THEN Raise("ZeroDivisionError") ELSE Returned(FDiv(a, b))

\* sum() of floats: 0 + q[1] + q[2] + ...
RECURSIVE FSum(_)
FSum(q) ==
    IF q = <<>> THEN FZero
    ELSE FAdd(FSum(SubSeq(q, 1, Len(q) - 1)), q[Len(q)])

\* The defaults of sharpe_ratio.
periods_per_year ==
    8760

risk_free_rate ==
    FZero

\* risk_free_rate / periods_per_year
period_risk_free ==
    truediv(risk_free_rate, FInt(periods_per_year))

\* periods_per_year ** 0.5
annualization ==
    FSqrt(FInt(periods_per_year))

equity_series(recorder, snapshots) ==
    [k \in 1..Len(recorder._states) |-> float(snapshots[recorder._states[k]].equity)]

\* A plausible slip: the guard lets an initial equity of zero through.
total_return_zero_initial(recorder, snapshots) ==
    LET states == recorder._states
        initial == float(snapshots[states[1]].equity)
        final == float(snapshots[states[Len(states)]].equity)
    IN  IF Len(states) < 2 THEN Returned(FZero)
        ELSE IF FLt(initial, FZero) THEN Returned(FZero)
        ELSE truediv(FSub(final, initial), initial)

total_return(recorder, snapshots) ==
    LET states == recorder._states
        initial == float(snapshots[states[1]].equity)
        final == float(snapshots[states[Len(states)]].equity)
    IN  IF Len(states) < 2 THEN Returned(FZero)
        ELSE IF FLe(initial, FZero) THEN Returned(FZero)
        ELSE truediv(FSub(final, initial), initial)

\* A plausible slip: the drawdown kept is the last one, not the largest.
max_drawdown_body_last(acc, e) ==
    LET peak == IF FGt(e, acc.peak) THEN e ELSE acc.peak
        dd_abs == FSub(peak, e)
        dd_pct == IF FGt(peak, FZero) THEN truediv(dd_abs, peak) ELSE Returned(FZero)
    IN  Then(dd_pct, LAMBDA v :
            Returned([peak |-> peak, max_dd_pct |-> v, max_dd_abs |-> dd_abs]))

\* The body of max_drawdown's loop for the equity e: the loop variables
\* peak, max_dd_pct, max_dd_abs after it.
max_drawdown_body(acc, e) ==
    LET peak == IF FGt(e, acc.peak) THEN e ELSE acc.peak
        dd_abs == FSub(peak, e)
        dd_pct == IF FGt(peak, FZero) THEN truediv(dd_abs, peak) ELSE Returned(FZero)
    IN  Then(dd_pct, LAMBDA v :
            Returned(IF FGt(v, acc.max_dd_pct)
                     THEN [peak |-> peak, max_dd_pct |-> v, max_dd_abs |-> dd_abs]
                     ELSE [acc EXCEPT !.peak = peak]))

\* for e in eq, from eq[k] on.
RECURSIVE max_drawdown_loop(_, _, _)
max_drawdown_loop(eq, k, acc) ==
    IF k > Len(eq) THEN Returned(acc)
    ELSE Then(max_drawdown_body(acc, eq[k]),
              LAMBDA next : max_drawdown_loop(eq, k + 1, next))

\* max_drawdown: the tuple (max_dd_pct, max_dd_abs).
max_drawdown(recorder, snapshots) ==
    LET eq == equity_series(recorder, snapshots)
    IN  IF Len(eq) < 2 THEN Returned(<<FZero, FZero>>)
        ELSE Then(max_drawdown_loop(eq, 1, [peak |-> eq[1], max_dd_pct |-> FZero,
                                            max_dd_abs |-> FZero]),
                  LAMBDA acc : Returned(<<acc.max_dd_pct, acc.max_dd_abs>>))

\* The list `returns` of sharpe_ratio after the loop has passed
\* i = 1..last; eq[i - 1] of the source is eq[i] here, where sequences
\* count from 1.
RECURSIVE sharpe_returns(_, _)
sharpe_returns(eq, last) ==
    IF last < 1 THEN Returned(<<>>)
    ELSE Then(sharpe_returns(eq, last - 1), LAMBDA returns :
            IF FGt(eq[last], FZero)
            THEN Then(truediv(FSub(eq[last + 1], eq[last]), eq[last]), LAMBDA q :
                 Then(period_risk_free, LAMBDA rf :
                      Returned(Append(returns, FSub(q, rf)))))
            ELSE Returned(returns))

\* (r - mean_r) ** 2 for r in returns
squared_deviations(returns, mean_r) ==
    [k \in 1..Len(returns) |->
        FMul(FSub(returns[k], mean_r), FSub(returns[k], mean_r))]

\* sharpe_ratio: None, or the float.
sharpe_ratio(recorder, snapshots) ==
    LET eq == equity_series(recorder, snapshots)
    IN  IF Len(eq) < 3 THEN Returned(None)
        ELSE Then(sharpe_returns(eq, Len(eq) - 1), LAMBDA returns :
             IF returns = <<>> THEN Returned(None)
             ELSE Then(truediv(FSum(returns), FInt(Len(returns))), LAMBDA mean_r :
                  Then(truediv(FSum(squared_deviations(returns, mean_r)),
                               FInt(Len(returns))), LAMBDA variance :
                       IF FLe(FSqrt(variance), FZero) THEN Returned(None)
                       ELSE Then(truediv(mean_r, FSqrt(variance)), LAMBDA q :
                            Returned(<<FMul(q, annualization)>>)))))

\* compute_metrics: the summary dict.
compute_metrics(recorder, snapshots) ==
    LET states == recorder._states
        trades == recorder._trades
    IN  IF states = <<>>
        THEN Returned([total_return_pct |-> FZero, max_drawdown_pct |-> FZero,
                       max_drawdown_abs |-> FZero, num_trades |-> 0,
                       sharpe_ratio |-> None, initial_equity |-> FZero,
                       final_equity |-> FZero, num_bars |-> 0])
        ELSE Then(max_drawdown(recorder, snapshots), LAMBDA dd :
             Then(total_return(recorder, snapshots), LAMBDA tr :
             Then(sharpe_ratio(recorder, snapshots), LAMBDA sharpe :
                  Returned([total_return_pct |-> FMul(tr, FInt(100)),
                            max_drawdown_pct |-> FMul(dd[1], FInt(100)),
                            max_drawdown_abs |-> dd[2],
                            num_trades |-> Len(trades),
                            sharpe_ratio |-> sharpe,
                            initial_equity |-> float(snapshots[states[1]].equity),
                            final_equity |-> float(snapshots[states[Len(states)]].equity),
                            num_bars |-> Len(states)]))))

---------------------------------------------------------------------------
(* Decimals that are not finite.  Decimal('NaN'), Decimal('Infinity') and  *)
(* Decimal('-Infinity') are the records below.  Under the default context  *)
(* an operation raises InvalidOperation for Infinity - Infinity,           *)
(* 0 * Infinity, Infinity / Infinity and an ordering comparison with NaN;  *)
(* other operations on NaN return NaN, and on an infinity an infinity (or  *)
(* zero, for a finite value divided by it).  The operators here take any   *)
(* Decimal and agree with DecAdd, DecMul and DecDiv on finite ones.        *)

NaN ==
    [special |-> "NaN"]

Infinity ==
    [special |-> "Infinity", sign |-> 1]

NegInfinity ==
    [special |-> "Infinity", sign |-> -1]

IsFinite(a) ==
    DOMAIN a = {"c", "e"}

IsNaN(a) ==
    a = NaN

\* The sign of a Decimal that is not NaN: -1, 0 or 1.
DecSign(a) ==
    IF IsFinite(a) THEN Sgn(a.c) ELSE a.sign

\* The infinity of the given sign (a zero operand counts as positive).
Inf(sign) ==
    IF sign < 0 THEN NegInfinity ELSE Infinity

XNeg(a) ==
    IF IsFinite(a) THEN DecNeg(a)
    ELSE IF IsNaN(a) THEN NaN
    ELSE Inf(-a.sign)

XAdd(a, b) ==
    IF IsFinite(a) /\ IsFinite(b) THEN Returned(DecAdd(a, b))
    ELSE IF IsNaN(a) \/ IsNaN(b) THEN Returned(NaN)
    ELSE IF ~IsFinite(a) /\ ~IsFinite(b) /\ a.sign # b.sign
         THEN Raise("InvalidOperation")
    ELSE Returned(IF IsFinite(a) THEN b ELSE a)

XSub(a, b) ==
    XAdd(a, XNeg(b))

XMul(a, b) ==
    IF IsFinite(a) /\ IsFinite(b) THEN Returned(DecMul(a, b))
    ELSE IF IsNaN(a) \/ IsNaN(b) THEN Returned(NaN)
    ELSE IF DecSign(a) = 0 \/ DecSign(b) = 0 THEN Raise("InvalidOperation")
    ELSE Returned(Inf(DecSign(a) * DecSign(b)))

XDiv(a, b) ==
    IF IsFinite(a) /\ IsFinite(b)
    THEN IF b # Zero THEN Returned(DecDiv(a, b))
         ELSE IF a = Zero THEN Raise("InvalidOperation")
         ELSE Raise("DivisionByZero")
    ELSE IF IsNaN(a) \/ IsNaN(b) THEN Returned(NaN)
    ELSE IF ~IsFinite(a) /\ ~IsFinite(b) THEN Raise("InvalidOperation")
    ELSE IF IsFinite(a) THEN Returned(Zero)
    ELSE Returned(Inf(a.sign * (IF DecSign(b) < 0 THEN -1 ELSE 1)))

\* a > 0
XPositive(a) ==
    IF IsNaN(a) THEN Raise("InvalidOperation") ELSE Returned(DecSign(a) > 0)

XAbs(a) ==
    IF IsFinite(a) THEN DecAbs(a)
    ELSE IF IsNaN(a) THEN NaN
    ELSE Infinity

\* SimulatedExecution.execute for any order quantity: the fill returned, or
\* the error raised.
execute_any(ex, order, fill_bar) ==
    LET price == fill_price(ex, order, fill_bar)
    IN  Then(XMul(order.quantity, price), LAMBDA notional :
        Then(XMul(notional, ex._fee_pct), LAMBDA fee :
             Returned(Fill(order.symbol, order.side, order.quantity, price, fee,
                           fill_bar.timestamp))))

\* What apply_fill leaves: the ledger after the statements it completed,
\* and the error that stopped it (NoError when it returned).
Applied(pf, positions, raised) ==
    [raised |-> raised, portfolio |-> pf, positions |-> positions]

\* Portfolio.apply_fill for any fill.  An error leaves the assignments made
\* before it: a buy has changed _cash when new_avg raises.
apply_fill_any(pf, positions, fill) ==
    LET old == positions[pf._position]
        qty == fill.quantity
        price == fill.price
        fee == fill.fee
    IN  IF fill.side = BUY
        THEN LET cash == Then(XMul(qty, price), LAMBDA cost :
                         Then(XAdd(cost, fee), LAMBDA paid : XSub(pf._cash, paid)))
             IN  IF cash.raised # NoError THEN Applied(pf, positions, cash.raised)
                 ELSE LET paid == Portfolio(cash.value, pf._position, pf._realized_pnl)
                          new_qty == XAdd(old.quantity, qty)
                          new_avg ==
                              IF new_qty.value # Zero
                              THEN Then(XMul(old.quantity, old.average_price), LAMBDA held :
                                   Then(XMul(qty, price), LAMBDA bought :
                                   Then(XAdd(held, bought), LAMBDA cost :
                                        XDiv(cost, new_qty.value))))
                              ELSE Returned(Zero)
                      IN  IF new_qty.raised # NoError
                          THEN Applied(paid, positions, new_qty.raised)
                          ELSE IF new_avg.raised # NoError
                          THEN Applied(paid, positions, new_avg.raised)
                          ELSE Applied(Portfolio(cash.value, Len(positions) + 1,
                                                 pf._realized_pnl),
                                       Append(positions,
                                              Position(new_qty.value, new_avg.value)),
                                       NoError)
        ELSE LET cash == Then(XMul(qty, price), LAMBDA proceeds :
                         Then(XSub(proceeds, fee), LAMBDA net : XAdd(pf._cash, net)))
             IN  IF cash.raised # NoError THEN Applied(pf, positions, cash.raised)
                 ELSE LET paid == Portfolio(cash.value, pf._position, pf._realized_pnl)
                          realized ==
                              Then(XSub(price, old.average_price), LAMBDA gain :
                              Then(XMul(gain, qty), LAMBDA gross :
                              Then(XSub(gross, fee), LAMBDA net :
                                   XAdd(pf._realized_pnl, net))))
                          new_qty == XSub(old.quantity, qty)
                      IN  IF realized.raised # NoError
                          THEN Applied(paid, positions, realized.raised)
                          ELSE IF new_qty.raised # NoError
                          THEN Applied(Portfolio(cash.value, pf._position, realized.value),
                                       positions, new_qty.raised)
                          ELSE Applied(Portfolio(cash.value, Len(positions) + 1,
                                                 realized.value),
                                       Append(positions,
                                              Position(new_qty.value,
                                                       IF new_qty.value # Zero
                                                       THEN old.average_price ELSE Zero)),
                                       NoError)

---------------------------------------------------------------------------
(* The engine (backtest/engine.py).  A run is the record of run()'s        *)
(* arguments and locals, its position pc in the loop body, the two object  *)
(* stores, and five histories kept for the properties:                     *)
(*   targets_hist the targets strategy.next returned, in order;            *)
(*   created      the orders created, in order;                            *)
(*   executed     for every order executed: the order, the index of the    *)
(*                bar it was executed against, and the fill;               *)
(*   ledger_hist  for every apply_fill: the fill and the ledger's values   *)
(*                before and after it;                                     *)
(*   calls        for every method called directly on the ledger or on the *)
(*                execution simulator: its name, arguments and result.     *)
(* metrics holds what the metrics functions returned for the recorder:    *)
(* a tuple, empty while they have not been called, of the record of the   *)
(* results of total_return, max_drawdown, sharpe_ratio and compute_metrics.*)

NewRun(bars, strategy, execution, initial_cash) ==
    [bars |-> bars, i |-> 0, pc |-> "for", pending_order |-> <<>>, state |-> 0,
     portfolio |-> NewPortfolio(initial_cash).portfolio,
     positions |-> NewPortfolio(initial_cash).positions,
     snapshots |-> <<>>, recorder |-> Recorder(<<>>, <<>>),
     strategy |-> strategy, execution |-> execution,
     targets_hist |-> <<>>, created |-> <<>>, executed |-> <<>>,
     ledger_hist |-> <<>>, calls |-> <<>>, metrics |-> <<>>]

\* A plausible slip: the loop body reads the bar after the current one
\* (while there is one).
CurrentBarAhead(s) ==
    s.bars[IF s.i + 2 <= Len(s.bars) THEN s.i + 2 ELSE s.i + 1]

\* The bar of the current iteration (bars[i], counted from 0).
CurrentBar(s) ==
    s.bars[s.i + 1]

\* portfolio.apply_fill(fill), with its entry in ledger_hist.
ledger_apply(s, fill) ==
    LET led == apply_fill(s.portfolio, s.positions, fill)
    IN  [s EXCEPT !.portfolio = led.portfolio,
                  !.positions = led.positions,
                  !.ledger_hist = Append(@, [fill |-> fill,
                      before |-> LedgerValue(s.portfolio, s.positions),
                      after |-> LedgerValue(led.portfolio, led.positions)])]

\* A plausible slip: the pending order is executed against the bar on which
\* it was decided.
fill_bar_index_decided(s) ==
    s.i - 1

\* The index (from 0) of the bar a pending order is executed against: the
\* bar of the current iteration.
fill_bar_index(s) ==
    s.i

\* execute, apply_fill, record_fill for the pending order against bar b,
\* and clear it.
execute_pending(s, b) ==
    LET fill == execute(s.execution, s.pending_order[1], s.bars[b + 1])
        t == ledger_apply(s, fill)
    IN  [t EXCEPT !.recorder = record_fill(@, fill),
                  !.pending_order = <<>>,
                  !.executed = Append(@, [order |-> s.pending_order[1],
                                          bar |-> b, fill |-> fill])]

\* A plausible slip: the loop stops one bar early.
for_step_short(s) ==
    IF s.i < Len(s.bars) - 1 THEN [s EXCEPT !.pc = "fill"] ELSE [s EXCEPT !.pc = "done"]

\* A plausible slip: an order still pending after the last bar is filled
\* against that bar instead of being dropped.
for_step_flush(s) ==
    IF s.i < Len(s.bars) THEN [s EXCEPT !.pc = "fill"]
    ELSE IF s.pending_order # <<>>
         THEN [execute_pending(s, s.i - 1) EXCEPT !.pc = "done"]
         ELSE [s EXCEPT !.pc = "done"]

\* for i, bar in enumerate(bars): the next bar, or the end of the loop, where
\* a pending order is dropped with the local variable.
for_step(s) ==
    IF s.i < Len(s.bars) THEN [s EXCEPT !.pc = "fill"] ELSE [s EXCEPT !.pc = "done"]

\* The same for an order whose quantity is not finite: an error raised by
\* execute or by apply_fill leaves run(), with what apply_fill had already
\* assigned.
execute_pending_any(s, b) ==
    LET x == execute_any(s.execution, s.pending_order[1], s.bars[b + 1])
        led == apply_fill_any(s.portfolio, s.positions, x.value)
        t == [s EXCEPT !.portfolio = led.portfolio,
                       !.positions = led.positions,
                       !.executed = Append(@, [order |-> s.pending_order[1],
                                               bar |-> b, fill |-> x.value])]
    IN  IF x.raised # NoError THEN [s EXCEPT !.pc = "raised"]
        ELSE IF led.raised # NoError THEN [t EXCEPT !.pc = "raised"]
        ELSE [t EXCEPT !.recorder = record_fill(@, x.value),
                       !.pending_order = <<>>,
                       !.ledger_hist = Append(@, [fill |-> x.value,
                           before |-> LedgerValue(s.portfolio, s.positions),
                           after |-> LedgerValue(led.portfolio, led.positions)]),
                       !.pc = "record"]

\* if pending_order is not None: execute, apply_fill, record_fill, clear.
fill_step(s) ==
    IF s.pending_order # <<>>
    THEN IF IsFinite(s.pending_order[1].quantity)
         THEN [execute_pending(s, fill_bar_index(s)) EXCEPT !.pc = "record"]
         ELSE execute_pending_any(s, fill_bar_index(s))
    ELSE [s EXCEPT !.pc = "record"]

\* A plausible slip: the snapshot is marked at the bar's open.
record_step_at_open(s) ==
    LET r == state_at(s.portfolio, s.positions, s.snapshots,
                      CurrentBar(s).open, CurrentBar(s).timestamp)
    IN  [s EXCEPT !.state = r.state, !.positions = r.positions,
                  !.snapshots = r.snapshots,
                  !.recorder = record_state(@, r.state),
                  !.pc = "decide"]

\* state = portfolio.state_at(bar.close, bar.timestamp); record_state(state)
record_step(s) ==
    LET r == state_at(s.portfolio, s.positions, s.snapshots,
                      CurrentBar(s).close, CurrentBar(s).timestamp)
    IN  [s EXCEPT !.state = r.state, !.positions = r.positions,
                  !.snapshots = r.snapshots,
                  !.recorder = record_state(@, r.state),
                  !.pc = "decide"]

\* A plausible slip: the order is for the target itself, not for the gap
\* between the target and the quantity held.
new_order_of_target(target, current, timestamp) ==
    LET delta == XSub(target, current).value
    IN  IF delta # Zero
        THEN <<Order(Symbol, IF XPositive(delta).value THEN BUY ELSE SELL,
                     XAbs(target), timestamp)>>
        ELSE <<>>

\* The order for target, given the quantity held: none when delta = 0.
new_order(target, current, timestamp) ==
    LET delta == XSub(target, current).value
    IN  IF delta # Zero
        THEN <<Order(Symbol, IF XPositive(delta).value THEN BUY ELSE SELL,
                     XAbs(delta), timestamp)>>
        ELSE <<>>

\* The error raised between strategy.next and the new order: by
\* target - current, or by delta > 0 for a delta that is NaN.
new_order_raised(target, current) ==
    LET delta == XSub(target, current)
    IN  IF delta.raised # NoError THEN delta.raised
        ELSE IF delta.value # Zero THEN XPositive(delta.value).raised
        ELSE NoError

\* target = strategy.next(bar, state); the order for delta, kept pending.
\* An error raised by strategy.next, or by the arithmetic on a target that
\* is not finite, leaves run().
decide_step(s) ==
    LET n == strategy_next(s.strategy, CurrentBar(s), s.state)
        o == new_order(n.target, s.positions[s.portfolio._position].quantity,
                       CurrentBar(s).timestamp)
    IN  IF n.raised # NoError
        THEN [s EXCEPT !.strategy = n.strategy, !.pc = "raised"]
        ELSE IF new_order_raised(n.target,
                                 s.positions[s.portfolio._position].quantity) # NoError
        THEN [s EXCEPT !.strategy = n.strategy,
                       !.targets_hist = Append(@, n.target),
                       !.pc = "raised"]
        ELSE [s EXCEPT !.strategy = n.strategy,
                       !.targets_hist = Append(@, n.target),
                       !.pending_order = IF o # <<>> THEN o ELSE @,
                       !.created = @ \o o,
                       !.i = @ + 1,
                       !.pc = "for"]

\* The constructor call for a shipped strategy (the --strategy choice and
\* its arguments).
strategy_init(call) ==
    IF call.kind = "momentum"
    THEN MomentumStrategy_init(call.lookback, call.size)
    ELSE DualMAStrategy_init(call.fast_lookback, call.slow_lookback, call.size)

\* The strategy is constructed before run() is called; an error raised by
\* the constructor ends the program.
construct_step(s) ==
    LET r == strategy_init(s.strategy)
    IN  IF r.raised # NoError THEN [s EXCEPT !.pc = "config_error"]
        ELSE [s EXCEPT !.strategy = r.object, !.pc = "for"]

\* One step of run() from its position pc.
step(s) ==
    IF s.pc = "for" THEN for_step(s)
    ELSE IF s.pc = "fill" THEN fill_step(s)
    ELSE IF s.pc = "record" THEN record_step(s)
    ELSE IF s.pc = "decide" THEN decide_step(s)
    ELSE s

---------------------------------------------------------------------------
(* Inputs                                                                  *)

\* (open, close) of the bars a run is given.
BarPrices ==
    {<<100, 101>>, <<102, 100>>}

\* The bar sequences of length n: bar k has timestamp k (ascending).
BarSeqs(n) ==
    {[k \in 1..n |-> Bar(k - 1, D(f[k][1]), D(f[k][2]))] : f \in [1..n -> BarPrices]}

\* Targets a scripted strategy returns.
Targets ==
    {D(-1), D(0), D(1), D(2)}

Strategies(n) ==
    {ScriptStrategy(t) : t \in [1..n -> Targets]}
    \cup {MomentumStrategy(l, D(1)) : l \in 1..2}
    \cup {DualMAStrategy(1, 2, D(1))}

\* Cost configurations: free, and 10% fee with 10% slippage.
Executions ==
    {SimulatedExecution(Zero, Zero),
     SimulatedExecution(Norm(1, -1), Norm(1, -1))}

InitialCash ==
    D(1000)

\* Fills applied to a ledger driven directly.
LedgerFills ==
    {Fill(Symbol, side, D(q), D(p), D(f), 0) :
        side \in {BUY, SELL}, q \in 1..3, p \in {100, 101}, f \in {0, 1}}

\* Constructor calls for the shipped strategies, valid and invalid.
Sizes ==
    {D(-1), D(1)}

StrategyCalls ==
    {[kind |-> "momentum", lookback |-> l, size |-> sz] :
        l \in -1..MaxLookback, sz \in Sizes}
    \cup {[kind |-> "dual_ma", fast_lookback |-> f, slow_lookback |-> w, size |-> sz] :
        f \in 0..2, w \in 0..MaxLookback, sz \in Sizes}

\* Cost configurations of an execution simulator driven directly: fee_pct
\* and slippage_pct >= 0, slippage up to 200%.
ExecutionConfigs ==
    {SimulatedExecution(fee, slip) :
        fee \in {Zero, Norm(1, -1)}, slip \in {Zero, Norm(1, -1), D(1), D(2)}}

\* (open, close) of the bars it is given: open >= 0.
ExecuteBarPrices ==
    BarPrices \cup {<<0, 1>>}

\* Order quantities it is given.
ExecuteQuantities ==
    {D(1), D(2)}

---------------------------------------------------------------------------
(* State                                                                   *)

VARIABLES bars, i, pc, pending_order, state, portfolio, positions, snapshots,
          recorder, strategy, execution, targets_hist, created, executed,
          ledger_hist, calls, metrics, twin

vars ==
    <<bars, i, pc, pending_order, state, portfolio, positions, snapshots,
      recorder, strategy, execution, targets_hist, created, executed,
      ledger_hist, calls, metrics, twin>>

\* The run held in the variables.
Self ==
    [bars |-> bars, i |-> i, pc |-> pc, pending_order |-> pending_order,
     state |-> state, portfolio |-> portfolio, positions |-> positions,
     snapshots |-> snapshots, recorder |-> recorder, strategy |-> strategy,
     execution |-> execution, targets_hist |-> targets_hist,
     created |-> created, executed |-> executed, ledger_hist |-> ledger_hist,
     calls |-> calls, metrics |-> metrics]

\* The variables hold run s (as an initial condition).
Holds(s) ==
    /\ bars = s.bars
    /\ i = s.i
    /\ pc = s.pc
    /\ pending_order = s.pending_order
    /\ state = s.state
    /\ portfolio = s.portfolio
    /\ positions = s.positions
    /\ snapshots = s.snapshots
    /\ recorder = s.recorder
    /\ strategy = s.strategy
    /\ execution = s.execution
    /\ targets_hist = s.targets_hist
    /\ created = s.created
    /\ executed = s.executed
    /\ ledger_hist = s.ledger_hist
    /\ calls = s.calls
    /\ metrics = s.metrics

\* The variables become run s.
Becomes(s) ==
    /\ bars' = s.bars
    /\ i' = s.i
    /\ pc' = s.pc
    /\ pending_order' = s.pending_order
    /\ state' = s.state
    /\ portfolio' = s.portfolio
    /\ positions' = s.positions
    /\ snapshots' = s.snapshots
    /\ recorder' = s.recorder
    /\ strategy' = s.strategy
    /\ execution' = s.execution
    /\ targets_hist' = s.targets_hist
    /\ created' = s.created
    /\ executed' = s.executed
    /\ ledger_hist' = s.ledger_hist
    /\ calls' = s.calls
    /\ metrics' = s.metrics

\* No second run.
NoTwin ==
    <<>>

---------------------------------------------------------------------------
(* Spec: one run of the engine over every input within the bounds          *)

Init ==
    /\ \E n \in 0..MaxBars :
         \E b \in BarSeqs(n), st \in Strategies(n), ex \in Executions :
            Holds(NewRun(b, st, ex, InitialCash))
    /\ twin = NoTwin

For ==
    /\ pc = "for"
    /\ Becomes(for_step(Self))
    /\ UNCHANGED twin

ExecutePending ==
    /\ pc = "fill"
    /\ Becomes(fill_step(Self))
    /\ UNCHANGED twin

RecordState ==
    /\ pc = "record"
    /\ Becomes(record_step(Self))
    /\ UNCHANGED twin

Decide ==
    /\ pc = "decide"
    /\ Becomes(decide_step(Self))
    /\ UNCHANGED twin

Next ==
    \/ For
    \/ ExecutePending
    \/ RecordState
    \/ Decide

Spec ==
    Init /\ [][Next]_vars

---------------------------------------------------------------------------
(* SpecNonFinite: runs whose strategy returns, at any bars, targets that   *)
(* are not finite                                                          *)

NonFiniteTargets ==
    {D(1), NaN, Infinity, NegInfinity}

NonFiniteInit ==
    /\ \E n \in 0..MaxBars :
         \E b \in BarSeqs(n), t \in [1..n -> NonFiniteTargets], ex \in Executions :
            Holds(NewRun(b, ScriptStrategy(t), ex, InitialCash))
    /\ twin = NoTwin

SpecNonFinite ==
    NonFiniteInit /\ [][Next]_vars

---------------------------------------------------------------------------
(* SpecWide: runs whose strategy returns targets of widely different       *)
(* magnitudes, so that a gap between two of them has more digits than the  *)
(* Decimal context keeps                                                   *)

WideTargets ==
    {D(0), D(1), D(100), Norm(1, -3)}

WideInit ==
    /\ \E n \in 0..MaxBars :
         \E b \in BarSeqs(n), t \in [1..n -> WideTargets], ex \in Executions :
            Holds(NewRun(b, ScriptStrategy(t), ex, InitialCash))
    /\ twin = NoTwin

SpecWide ==
    WideInit /\ [][Next]_vars

---------------------------------------------------------------------------
(* SpecLedger: a ledger driven directly by any fills                       *)

LedgerInit ==
    /\ Holds([NewRun(<<>>, ScriptStrategy(<<>>), SimulatedExecution(Zero, Zero),
                     InitialCash) EXCEPT !.pc = "ledger"])
    /\ twin = NoTwin

ApplyFill ==
    /\ pc = "ledger"
    /\ Len(ledger_hist) < MaxFills
    /\ \E fill \in LedgerFills : Becomes(ledger_apply(Self, fill))
    /\ UNCHANGED twin

LedgerNext ==
    ApplyFill

SpecLedger ==
    LedgerInit /\ [][LedgerNext]_vars

---------------------------------------------------------------------------
(* SpecCalls: the methods of a ledger and of an execution simulator called *)
(* directly, in any order, MaxCalls times.  The Order object given to      *)
(* execute is the one held in pending_order.  The arguments and the result *)
(* of a call are kept as tuples (the empty tuple for None).                *)

CallFills ==
    {Fill(Symbol, BUY, D(2), D(100), D(1), 0),
     Fill(Symbol, SELL, D(1), D(101), D(1), 0)}

CallPrices ==
    {D(100), D(102)}

CallOrders ==
    {Order(Symbol, side, D(1), 0) : side \in {BUY, SELL}}

\* The run after a call: its entry in `calls`.
Called(s, op, args, result) ==
    [s EXCEPT !.calls = Append(@, [op |-> op, args |-> args, result |-> result])]

call_apply_fill(s, fill) ==
    Called(ledger_apply(s, fill), "apply_fill", <<fill>>, <<>>)

call_equity_at(s, price) ==
    Called(s, "equity_at", <<price>>, <<equity_at(s.portfolio, s.positions, price)>>)

call_unrealized_pnl_at(s, price) ==
    Called(s, "unrealized_pnl_at", <<price>>,
           <<unrealized_pnl_at(s.portfolio, s.positions, price)>>)

call_state_at(s, price, timestamp) ==
    LET r == state_at(s.portfolio, s.positions, s.snapshots, price, timestamp)
    IN  Called([s EXCEPT !.state = r.state, !.positions = r.positions,
                         !.snapshots = r.snapshots],
               "state_at", <<price, timestamp>>, <<r.state>>)

call_execute(s, fill_bar) ==
    Called(s, "execute", <<s.pending_order[1], fill_bar>>,
           <<execute(s.execution, s.pending_order[1], fill_bar)>>)

CallsInit ==
    /\ \E order \in CallOrders :
         Holds([NewRun(<<>>, ScriptStrategy(<<>>),
                       SimulatedExecution(Norm(1, -1), Norm(1, -1)), InitialCash)
                    EXCEPT !.pc = "calls", !.pending_order = <<order>>])
    /\ twin = NoTwin

CallApplyFill ==
    /\ pc = "calls"
    /\ Len(calls) < MaxCalls
    /\ \E fill \in CallFills : Becomes(call_apply_fill(Self, fill))
    /\ UNCHANGED twin

CallEquityAt ==
    /\ pc = "calls"
    /\ Len(calls) < MaxCalls
    /\ \E price \in CallPrices : Becomes(call_equity_at(Self, price))
    /\ UNCHANGED twin

CallUnrealizedPnlAt ==
    /\ pc = "calls"
    /\ Len(calls) < MaxCalls
    /\ \E price \in CallPrices : Becomes(call_unrealized_pnl_at(Self, price))
    /\ UNCHANGED twin

CallStateAt ==
    /\ pc = "calls"
    /\ Len(calls) < MaxCalls
    /\ \E price \in CallPrices : Becomes(call_state_at(Self, price, Len(calls)))
    /\ UNCHANGED twin

CallExecute ==
    /\ pc = "calls"
    /\ Len(calls) < MaxCalls
    /\ \E prices \in BarPrices :
         Becomes(call_execute(Self, Bar(1, D(prices[1]), D(prices[2]))))
    /\ UNCHANGED twin

CallsNext ==
    \/ CallApplyFill
    \/ CallEquityAt
    \/ CallUnrealizedPnlAt
    \/ CallStateAt
    \/ CallExecute

SpecCalls ==
    CallsInit /\ [][CallsNext]_vars

---------------------------------------------------------------------------
(* SpecScenario: runs over five bars whose close equals their open, among  *)
(* them the rising bars 100..104, with scripted 0/1 targets                *)

ScenarioOpens ==
    <<100, 101, 102, 103, 104>>

ScenarioBars ==
    [k \in 1..Len(ScenarioOpens) |-> Bar(k - 1, D(ScenarioOpens[k]), D(ScenarioOpens[k]))]

ScenarioTargets ==
    <<D(1), D(0), D(0), D(0), D(0)>>

ScenarioInit ==
    /\ \E f \in [1..Len(ScenarioOpens) -> BOOLEAN],
          t \in [1..Len(ScenarioOpens) -> {D(0), D(1)}],
          ex \in Executions :
         Holds(NewRun([k \in 1..Len(ScenarioOpens) |->
                          IF f[k] THEN ScenarioBars[k] ELSE Bar(k - 1, D(100), D(100))],
                      ScriptStrategy(t), ex, InitialCash))
    /\ twin = NoTwin

SpecScenario ==
    ScenarioInit /\ [][Next]_vars

---------------------------------------------------------------------------
(* SpecPair: two runs side by side, with the same strategy construction,   *)
(* cost configuration and initial cash, over bar sequences that differ     *)
(* from one bar on (the second sequence has another bar there, or ends     *)
(* before it).  Both runs step together.                                   *)

\* What bar d of the second sequence may be: a bar of these prices, or
\* (the empty tuple) the end of the sequence.
PairAlternatives ==
    BarPrices \cup {<<100, 102>>, <<>>}

Variant(b, d, alt) ==
    IF alt = <<>> THEN SubSeq(b, 1, d - 1)
    ELSE [b EXCEPT ![d] = Bar(d - 1, D(alt[1]), D(alt[2]))]

PairStrategies(n) ==
    {ScriptStrategy(t) : t \in [1..n -> {D(0), D(1)}]}
    \cup {MomentumStrategy(l, D(1)) : l \in 1..2}
    \cup {DualMAStrategy(1, 2, D(1))}

PairInit ==
    \E n \in 1..MaxBars :
        \E b \in BarSeqs(n), d \in 1..n, alt \in PairAlternatives,
           st \in PairStrategies(n), ex \in Executions :
            /\ Holds(NewRun(b, st, ex, InitialCash))
            /\ twin = NewRun(Variant(b, d, alt), st, ex, InitialCash)

PairStep ==
    /\ pc # "done" \/ twin.pc # "done"
    /\ Becomes(step(Self))
    /\ twin' = step(twin)

PairNext ==
    PairStep

SpecPair ==
    PairInit /\ [][PairNext]_vars

---------------------------------------------------------------------------
(* SpecShipped: a shipped strategy is constructed from its arguments, and  *)
(* if the constructor accepts them the engine runs with it.  Until it is   *)
(* constructed, `strategy` holds the constructor call.                     *)

ShippedInit ==
    /\ \E n \in 0..MaxBars :
         \E b \in BarSeqs(n), call \in StrategyCalls, ex \in Executions :
            Holds([NewRun(b, call, ex, InitialCash) EXCEPT !.pc = "construct"])
    /\ twin = NoTwin

Construct ==
    /\ pc = "construct"
    /\ Becomes(construct_step(Self))
    /\ UNCHANGED twin

ShippedNext ==
    \/ Construct
    \/ For
    \/ ExecutePending
    \/ RecordState
    \/ Decide

SpecShipped ==
    ShippedInit /\ [][ShippedNext]_vars

---------------------------------------------------------------------------
(* SpecExecute: an execution simulator of any cost configuration, given    *)
(* orders and fill bars directly.  Each bar given is appended to `bars`,   *)
(* and each call to `executed`.                                            *)

ExecuteInit ==
    /\ \E ex \in ExecutionConfigs :
         Holds([NewRun(<<>>, ScriptStrategy(<<>>), ex, InitialCash)
                    EXCEPT !.pc = "execute"])
    /\ twin = NoTwin

\* execute(order, fill_bar) for an order created at the timestamp before
\* the bar's.
execute_call(s, side, quantity, prices) ==
    LET fill_bar == Bar(Len(s.bars) + 1, D(prices[1]), D(prices[2]))
        order == Order(Symbol, side, quantity, Len(s.bars))
    IN  [s EXCEPT !.bars = Append(@, fill_bar),
                  !.executed = Append(@, [order |-> order, bar |-> Len(s.bars),
                                          fill |-> execute(s.execution, order, fill_bar)])]

Execute ==
    /\ pc = "execute"
    /\ Len(executed) < MaxExecutes
    /\ \E side \in {BUY, SELL}, quantity \in ExecuteQuantities,
          prices \in ExecuteBarPrices :
         Becomes(execute_call(Self, side, quantity, prices))
    /\ UNCHANGED twin

ExecuteNext ==
    Execute

SpecExecute ==
    ExecuteInit /\ [][ExecuteNext]_vars

---------------------------------------------------------------------------
(* SpecMetrics and SpecSharpe: the metrics of a recorder holding any       *)
(* equity curve, and any list of trades, of the sets below.  The curves of *)
(* a pool are all the sequences of its equities up to MaxStates long:      *)
(* flat, rising, falling, with a drawdown and a recovery, through zero and *)
(* below it.  SpecMetrics takes the curves of PoolDegenerate and           *)
(* PoolDrawdown, SpecSharpe those of PoolDegenerate and PoolGrowth.        *)

PoolDegenerate ==
    {D(-100), D(0), D(1000)}

PoolDrawdown ==
    {D(860), D(862), D(1728)}

PoolGrowth ==
    {D(1000), D(1200), D(1440), D(1728)}

EquityCurves(pools) ==
    UNION {[1..n -> pool] : n \in 0..MaxStates, pool \in pools}

TradeLists ==
    {<<>>, <<Fill(Symbol, BUY, One, D(100), Zero, 1)>>}

\* recorder.record_state of a snapshot of a flat portfolio worth `equity`.
record_equity(s, equity) ==
    [s EXCEPT !.positions = Append(@, Position(Zero, Zero)),
              !.snapshots = Append(@, PortfolioState(equity, Len(s.positions) + 1,
                                          equity, Zero, Zero, Len(s.snapshots))),
              !.recorder = record_state(@, Len(s.snapshots) + 1)]

\* The run whose recorder holds the trades and the first n states of the
\* curve.
RECURSIVE RecorderOf(_, _, _)
RecorderOf(curve, trades, n) ==
    IF n = 0
    THEN [NewRun(<<>>, ScriptStrategy(<<>>), SimulatedExecution(Zero, Zero), InitialCash)
             EXCEPT !.pc = "metrics",
                    !.recorder = Recorder(<<>>, trades)]
    ELSE record_equity(RecorderOf(curve, trades, n - 1), curve[n])

MetricsInit ==
    /\ \E curve \in EquityCurves({PoolDegenerate, PoolDrawdown}), trades \in TradeLists :
         Holds(RecorderOf(curve, trades, Len(curve)))
    /\ twin = NoTwin

SharpeInit ==
    /\ \E curve \in EquityCurves({PoolDegenerate, PoolGrowth}), trades \in TradeLists :
         Holds(RecorderOf(curve, trades, Len(curve)))
    /\ twin = NoTwin

\* The three metrics and the summary, as scripts/run_backtest.py and the
\* callers of reporting.metrics ask for them.
metrics_step(s) ==
    [s EXCEPT !.pc = "reported",
              !.metrics = <<[total_return |-> total_return(s.recorder, s.snapshots),
                             max_drawdown |-> max_drawdown(s.recorder, s.snapshots),
                             sharpe_ratio |-> sharpe_ratio(s.recorder, s.snapshots),
                             summary |-> compute_metrics(s.recorder, s.snapshots)]>>]

ComputeMetrics ==
    /\ pc = "metrics"
    /\ \E s \in {metrics_step(Self)} : Becomes(s)
    /\ UNCHANGED twin

MetricsNext ==
    ComputeMetrics

SpecMetrics ==
    MetricsInit /\ [][MetricsNext]_vars

SpecSharpe ==
    SharpeInit /\ [][MetricsNext]_vars

---------------------------------------------------------------------------
(* Properties of a run (Spec)                                              *)

\* The index (from 0) of the bar carrying timestamp ts.
BarIndex(ts) ==
    CHOOSE k \in 0..(Len(bars) - 1) : bars[k + 1].timestamp = ts

\* The loop has passed the fill of bar b.
PastFillOf(b) ==
    i > b \/ (i = b /\ pc \in {"record", "decide"})

\* The price a fill of `order` against `bar` must carry: the bar's open,
\* moved against the trader by the slippage.
PriceFromOpen(order, bar) ==
    IF order.side = BUY
    THEN DecMul(bar.open, DecAdd(One, execution._slippage_pct))
    ELSE DecMul(bar.open, DecSub(One, execution._slippage_pct))

\* C1: one-bar execution lag.  Every executed order was created by the
\* engine, on the bar just before the bar it is executed against; its fill
\* carries that next bar's timestamp and a price derived from that bar's
\* open; no order is executed twice; and once the loop has passed the fill
\* of bar t+1, the order created at bar t has been executed exactly once
\* (an order created at the last bar never is).
C1_OneBarLag ==
    /\ \A k \in 1..Len(executed) :
         LET x == executed[k]
         IN  /\ \E j \in 1..Len(created) : created[j] = x.order
             /\ x.bar \in 1..(Len(bars) - 1)
             /\ x.order.timestamp = bars[x.bar].timestamp
             /\ x.order.timestamp # bars[x.bar + 1].timestamp
             /\ x.fill.timestamp = bars[x.bar + 1].timestamp
             /\ x.fill.price = PriceFromOpen(x.order, bars[x.bar + 1])
             /\ recorder._trades[k] = x.fill
    /\ Len(recorder._trades) = Len(executed)
    /\ \A j, k \in 1..Len(executed) : executed[j].order = executed[k].order => j = k
    /\ \A j \in 1..Len(created) :
         LET t == BarIndex(created[j].timestamp)
             n == Cardinality({k \in 1..Len(executed) : executed[k].order = created[j]})
         IN  /\ t + 1 < Len(bars) /\ PastFillOf(t + 1) => n = 1
             /\ t + 1 = Len(bars) => n = 0

\* A finished run in which an order was executed on bar 1 and another on
\* bar 2, and the order of the last bar was left.
C1_Witness ==
    /\ pc = "done"
    /\ Len(executed) = 2
    /\ executed[1].bar = 1
    /\ executed[2].bar = 2
    /\ Len(created) = 3

\* The values of the k-th recorded state.
Recorded(k) ==
    StateValue(positions, snapshots, recorder._states[k])

\* The number of bars whose state has been recorded.
BarsRecorded ==
    IF pc = "decide" THEN i + 1 ELSE i

\* C4: recorder log shape.  The recorder holds one state per bar processed,
\* in bar order (n states after a run over n bars); fills are appended at
\* most one per bar, never on the first bar, so at most max(n-1, 0) of
\* them; an empty bar sequence leaves the log empty.
C4_RecorderShape ==
    /\ Len(recorder._states) = BarsRecorded
    /\ pc = "done" => Len(recorder._states) = Len(bars)
    /\ \A k \in 1..Len(recorder._states) : Recorded(k).timestamp = bars[k].timestamp
    /\ \A k \in 1..Len(recorder._trades) :
         /\ recorder._trades[k].timestamp # bars[1].timestamp
         /\ \E b \in 2..Len(bars) : recorder._trades[k].timestamp = bars[b].timestamp
         /\ \A j \in 1..(k - 1) :
              recorder._trades[j].timestamp < recorder._trades[k].timestamp
    /\ Len(recorder._trades) <= (IF Len(bars) >= 1 THEN Len(bars) - 1 ELSE 0)
    /\ Len(bars) = 0 /\ pc = "done" =>
         recorder._states = <<>> /\ recorder._trades = <<>>

\* A finished run over three bars that recorded three states and two fills.
C4_Witness ==
    /\ pc = "done"
    /\ Len(bars) = 3
    /\ Len(recorder._states) = 3
    /\ Len(recorder._trades) = 2

\* C5: final-bar boundary.  When run returns, the ledger's cash, position
\* and realized PnL are those of the last recorded state, no executed order
\* was decided on the last bar, and an order decided there is still the
\* (dropped) pending order.
C5_FinalBar ==
    pc = "done" /\ Len(bars) >= 1 =>
        /\ Len(recorder._states) >= 1
        /\ LET last == Recorded(Len(recorder._states))
               led == LedgerValue(portfolio, positions)
           IN  /\ last.cash = led.cash
               /\ last.quantity = led.quantity
               /\ last.average_price = led.average_price
               /\ last.realized_pnl = led.realized_pnl
        /\ \A k \in 1..Len(executed) :
             executed[k].order.timestamp # bars[Len(bars)].timestamp
        /\ \A k \in 1..Len(recorder._trades) :
             recorder._trades[k].timestamp <= bars[Len(bars)].timestamp
        /\ \A j \in 1..Len(created) :
             created[j].timestamp = bars[Len(bars)].timestamp =>
                 pending_order = <<created[j]>>

\* A finished run whose last bar's decision created an order, after an
\* earlier order was filled.
C5_Witness ==
    /\ pc = "done"
    /\ pending_order # <<>>
    /\ Len(executed) >= 1
    /\ pending_order[1].timestamp = bars[Len(bars)].timestamp

\* C10: snapshot independence.  No step of the run (apply_fill among them)
\* changes what a recorded state, or the state last returned by state_at,
\* reads: cash, quantity, average price, equity, realized and unrealized
\* PnL, timestamp.
C10_SnapshotIndependence ==
    [][ /\ \A k \in 1..Len(recorder._states) :
             /\ recorder'._states[k] = recorder._states[k]
             /\ StateValue(positions', snapshots', recorder._states[k])
                  = StateValue(positions, snapshots, recorder._states[k])
        /\ state # 0 =>
             StateValue(positions', snapshots', state)
               = StateValue(positions, snapshots, state) ]_vars

\* A fill has just been applied, and the ledger no longer holds the
\* quantity or the cash of the last recorded state.
C10_Witness ==
    /\ pc = "record"
    /\ Len(recorder._states) >= 1
    /\ Len(ledger_hist) >= 1
    /\ Recorded(Len(recorder._states)).quantity # LedgerValue(portfolio, positions).quantity
    /\ Recorded(Len(recorder._states)).cash # LedgerValue(portfolio, positions).cash
    /\ Recorded(1).cash = InitialCash

\* The number of fills applied to the ledger up to bar k (counted from 1)
\* and on it.
FillsThrough(k) ==
    Cardinality({j \in 1..Len(ledger_hist) :
                    ledger_hist[j].fill.timestamp <= bars[k].timestamp})

\* What the ledger held once the fill of bar k, if any, was applied.
PostFill(k) ==
    IF FillsThrough(k) = 0
    THEN LedgerValue(NewPortfolio(InitialCash).portfolio,
                     NewPortfolio(InitialCash).positions)
    ELSE ledger_hist[FillsThrough(k)].after

\* C22: the order of the engine's actions within a bar.  From the head of
\* the loop body: the fill of the pending order, if any (applied to the
\* ledger, recorded, the pending order cleared); then the snapshot marked
\* at this bar's close and timestamp, recorded; then exactly one call of
\* strategy.next, given this bar and that snapshot; then the new order, if
\* any.  Hence the state recorded at bar i has equity = post-fill cash +
\* post-fill quantity * close_i, and no order is pending when the strategy
\* is consulted.
\*   Stated on the positions of the loop body: strategy.next has been
\* called once for each bar decided, the last time with the bar just
\* decided (a shipped strategy has kept its close), and a pending order
\* is the one the last decision created; past the fill no order is
\* pending, the fill is in the ledger and in the recorder, and the bar's
\* state is not yet recorded; at the decision the local `state` is the snapshot just
\* recorded for this bar, of the ledger as the fill left it; and every
\* recorded state is marked at its bar's close on the post-fill ledger.
C22_BarOrder ==
    /\ Len(targets_hist) = i
    /\ strategy.kind = "script" => strategy.calls = i
    /\ strategy.kind # "script" /\ i >= 1 =>
         strategy._closes[Len(strategy._closes)] = bars[i].close
    /\ pc \in {"for", "fill", "done"} =>
         /\ Len(recorder._states) = i
         /\ pending_order # <<>> =>
              /\ i >= 1
              /\ pending_order[1] = created[Len(created)]
              /\ pending_order[1].timestamp = bars[i].timestamp
    /\ pc = "record" =>
         /\ pending_order = <<>>
         /\ Len(recorder._states) = i
         /\ Len(recorder._trades) = Len(ledger_hist)
         /\ Len(recorder._trades) = FillsThrough(i + 1)
         /\ LedgerValue(portfolio, positions) = PostFill(i + 1)
    /\ pc = "decide" =>
         /\ pending_order = <<>>
         /\ Len(recorder._states) = i + 1
         /\ state = recorder._states[i + 1]
         /\ Len(recorder._trades) = FillsThrough(i + 1)
         /\ LedgerValue(portfolio, positions) = PostFill(i + 1)
    /\ \A k \in 1..Len(recorder._states) :
         /\ Recorded(k).timestamp = bars[k].timestamp
         /\ Recorded(k).cash = PostFill(k).cash
         /\ Recorded(k).quantity = PostFill(k).quantity
         /\ Recorded(k).equity =
              DecAdd(PostFill(k).cash, DecMul(PostFill(k).quantity, bars[k].close))

\* A run has come to the decision of its third bar with fills applied on
\* the second and the third: the state recorded at the second bar holds
\* the quantity bought on it, marked at a close below the open.
C22_Witness ==
    /\ pc = "decide"
    /\ i = 2
    /\ Len(ledger_hist) = 2
    /\ FillsThrough(2) = 1
    /\ FillsThrough(3) = 2
    /\ Recorded(2).quantity = D(2)
    /\ bars[2].close = D(100) /\ bars[2].open = D(102)
    /\ Recorded(2).equity # Recorded(2).cash
    /\ Recorded(3).quantity # Recorded(2).quantity

---------------------------------------------------------------------------
(* Properties of runs with targets that are not finite (SpecNonFinite)     *)

\* The strategy has returned a target that is not finite.
NonFiniteReturned ==
    \E k \in 1..Len(targets_hist) : ~IsFinite(targets_hist[k])

\* C23: if strategy.next returns a target that is not finite (NaN,
\* +Infinity or -Infinity) at any bar, the run ends in a fatal condition:
\* it never returns normally with the target ignored, and the target never
\* becomes a recorded fill or an update of the ledger's cash.
C23_NonFiniteFatal ==
    NonFiniteReturned =>
        /\ pc # "done"
        /\ IsFinite(portfolio._cash)
        /\ \A k \in 1..Len(recorder._trades) :
              IsFinite(recorder._trades[k].quantity)

---------------------------------------------------------------------------
(* Properties of runs with targets of any magnitude (SpecWide)             *)

\* The orders created at the decision of bar k (from 1).
OrdersAt(k) ==
    {created[j] : j \in {j \in 1..Len(created) :
                            created[j].timestamp = bars[k].timestamp}}

\* target - current without rounding.
ExactDifference(target, current) ==
    Norm(Aligned(target, MinExp(target, current))
            - Aligned(current, MinExp(target, current)),
         MinExp(target, current))

\* The gap from current to target is closed by Decimal arithmetic without
\* rounding: target - current is computed exactly, and target has no more
\* digits than the context keeps.
ExactGap(target, current) ==
    /\ DecSub(target, current) = ExactDifference(target, current)
    /\ RoundCoef(target.c, target.e) = target

\* At every decision made, an order is created iff the target differs from
\* the quantity of the state recorded at that bar; it is a BUY iff
\* delta = target - quantity is > 0, and its quantity is |delta| > 0.
OrderForDelta ==
    \A k \in 1..Len(targets_hist) :
        LET current == Recorded(k).quantity
            delta == DecSub(targets_hist[k], current)
        IN  /\ OrdersAt(k) # {} <=> targets_hist[k] # current
            /\ Cardinality(OrdersAt(k)) <= 1
            /\ \A o \in OrdersAt(k) :
                 /\ o.side = BUY <=> DecGt(delta, Zero)
                 /\ o.side = SELL <=> DecLt(delta, Zero)
                 /\ o.quantity = DecAbs(delta)
                 /\ DecGt(o.quantity, Zero)

\* C25 as claimed: the target is reached in one bar.  For every bar i >= 1
\* the quantity of the state recorded at bar i is the target the strategy
\* returned at bar i-1; an order is created iff the target differs from the
\* current quantity, BUY iff delta > 0, of the quantity |delta| > 0.
C25_TargetConvergence ==
    /\ OrderForDelta
    /\ \A k \in 2..Len(recorder._states) :
         Recorded(k).quantity = targets_hist[k - 1]

\* C25 as amended: an order is created iff the target differs from the
\* current quantity, BUY iff delta > 0, of the quantity |delta| > 0, where
\* delta is the Decimal difference target - quantity, rounded to the
\* precision of the context; the quantity of the state recorded at bar i is
\* the quantity recorded at bar i-1 plus that delta, rounded; and it is the
\* target returned at bar i-1 whenever the gap is closed without rounding.
C25_TargetConvergenceAmended ==
    /\ OrderForDelta
    /\ \A k \in 2..Len(recorder._states) :
         LET current == Recorded(k - 1).quantity
             target == targets_hist[k - 1]
             delta == DecSub(target, current)
         IN  /\ Recorded(k).quantity =
                  IF delta = Zero THEN current
                  ELSE IF DecGt(delta, Zero) THEN DecAdd(current, DecAbs(delta))
                  ELSE DecSub(current, DecAbs(delta))
             /\ ExactGap(target, current) => Recorded(k).quantity = target

\* A finished run of three bars: the target 100 of bar 0 is reached at
\* bar 1 by a buy of 100, and the target 1 of bar 1 is reached at bar 2 by
\* a sell of 99, both gaps closed without rounding.
C25_Witness ==
    /\ pc = "done"
    /\ Len(bars) = 3
    /\ targets_hist[1] = D(100) /\ targets_hist[2] = D(1)
    /\ ExactGap(targets_hist[1], Recorded(1).quantity)
    /\ ExactGap(targets_hist[2], Recorded(2).quantity)
    /\ Recorded(2).quantity = D(100)
    /\ Recorded(3).quantity = D(1)
    /\ created[1].side = BUY /\ created[1].quantity = D(100)
    /\ created[2].side = SELL /\ created[2].quantity = D(99)
    /\ Len(recorder._trades) = 2

---------------------------------------------------------------------------
(* Properties of the scenario (SpecScenario)                               *)

\* The run is the scenario: bars 100..104 with close = open, target 1 on
\* bar 0 and 0 afterwards, no fee, no slippage, cash 1000.
IsScenario ==
    /\ bars = ScenarioBars
    /\ strategy.kind = "script"
    /\ strategy.targets = ScenarioTargets
    /\ execution = SimulatedExecution(Zero, Zero)
    /\ Recorded(1).cash = D(1000)

\* C3: the end-to-end scenario ends with a buy filled at bar 1 at 101
\* (position 1, cash 899), a sell filled at bar 2 at 102 (position 0, cash
\* 1001, realized PnL 1), nothing on bars 3 and 4, and a log of exactly 5
\* states and 2 fills.
C3_Scenario ==
    pc = "done" /\ IsScenario =>
        /\ recorder._trades =
             <<Fill(Symbol, BUY, D(1), D(101), Zero, 1),
               Fill(Symbol, SELL, D(1), D(102), Zero, 2)>>
        /\ Len(recorder._states) = 5
        /\ Recorded(1).quantity = Zero /\ Recorded(1).equity = D(1000)
        /\ Recorded(2).quantity = D(1) /\ Recorded(2).cash = D(899)
        /\ Recorded(2).average_price = D(101) /\ Recorded(2).equity = D(1000)
        /\ \A k \in 3..5 :
             /\ Recorded(k).quantity = Zero
             /\ Recorded(k).cash = D(1001)
             /\ Recorded(k).realized_pnl = D(1)
             /\ Recorded(k).equity = D(1001)
             /\ Recorded(k).timestamp = k - 1
        /\ LedgerValue(portfolio, positions) =
             [cash |-> D(1001), quantity |-> Zero, average_price |-> Zero,
              realized_pnl |-> D(1)]
        /\ pending_order = <<>>

\* The scenario has run to its end.
C3_Witness ==
    pc = "done" /\ Len(recorder._states) >= 1 /\ IsScenario

---------------------------------------------------------------------------
(* Properties of the ledger (SpecLedger)                                   *)

\* Fills k and k+1 are a buy and a sell of the same quantity at the same
\* price, both without fee.
IsRoundTrip(k) ==
    /\ ledger_hist[k].fill.side = BUY
    /\ ledger_hist[k + 1].fill.side = SELL
    /\ ledger_hist[k].fill.quantity = ledger_hist[k + 1].fill.quantity
    /\ ledger_hist[k].fill.price = ledger_hist[k + 1].fill.price
    /\ ledger_hist[k].fill.fee = Zero
    /\ ledger_hist[k + 1].fill.fee = Zero

AllBuys ==
    \A k \in 1..Len(ledger_hist) : ledger_hist[k].fill.side = BUY

\* The sum of q_k over the first n fills.
RECURSIVE SumQty(_)
SumQty(n) ==
    IF n = 0 THEN Zero ELSE DecAdd(SumQty(n - 1), ledger_hist[n].fill.quantity)

\* The sum of q_k * p_k over the first n fills.
RECURSIVE SumCost(_)
SumCost(n) ==
    IF n = 0 THEN Zero
    ELSE DecAdd(SumCost(n - 1),
                DecMul(ledger_hist[n].fill.quantity, ledger_hist[n].fill.price))

\* a * b without rounding.
ExactProduct(a, b) ==
    Norm(a.c * b.c, a.e + b.e)

\* The average of fill k is the exact quotient of its buy: no digit was
\* rounded away.
ExactAverage(k) ==
    ExactProduct(ledger_hist[k].after.average_price, ledger_hist[k].after.quantity)
        = DecAdd(DecMul(ledger_hist[k].before.quantity, ledger_hist[k].before.average_price),
                 DecMul(ledger_hist[k].fill.quantity, ledger_hist[k].fill.price))

C8_SellKeepsAverage ==
    \A k \in 1..Len(ledger_hist) :
        ledger_hist[k].fill.side = SELL /\ ledger_hist[k].after.quantity # Zero =>
            ledger_hist[k].after.average_price = ledger_hist[k].before.average_price

\* A partial sell of a held position, with a fee, at a price other than
\* the average price.
C8_Witness ==
    \E k \in 1..Len(ledger_hist) :
        /\ ledger_hist[k].fill.side = SELL
        /\ DecGt(ledger_hist[k].after.quantity, Zero)
        /\ ledger_hist[k].fill.fee # Zero
        /\ ledger_hist[k].fill.price # ledger_hist[k].before.average_price
        /\ ledger_hist[k].before.average_price # Zero

Oversell(k) ==
    /\ ledger_hist[k].fill.side = SELL
    /\ DecGt(ledger_hist[k].fill.quantity, ledger_hist[k].before.quantity)

\* The outcome of apply_fill for fill k on a ledger holding what the
\* ledger held before it: the error raised, and the ledger left.
Outcome(k) ==
    LET before == ledger_hist[k].before
        applied == apply_fill_any(Portfolio(before.cash, 1, before.realized_pnl),
                                  <<Position(before.quantity, before.average_price)>>,
                                  ledger_hist[k].fill)
    IN  [raised |-> applied.raised,
         ledger |-> LedgerValue(applied.portfolio, applied.positions)]

\* C24: apply_fill never rejects a fill.  A sell of more than is held (a
\* sell from a flat ledger included) is applied without error; it leaves a
\* negative quantity, the held quantity minus the sold one, and the average
\* price as it was; it credits cash by quantity * price - fee, and adds
\* (price - average_price) * quantity - fee to the realized PnL, for the
\* whole quantity sold.
\* (The fill that led to a state is the last of its history, so that every
\* fill's outcome is looked at in the state it leads to.)
C24_OversellApplied ==
    /\ ledger_hist # <<>> =>
          LET last == Outcome(Len(ledger_hist))
          IN  /\ last.raised = NoError
              /\ last.ledger = ledger_hist[Len(ledger_hist)].after
    /\ \A k \in 1..Len(ledger_hist) :
          Oversell(k) =>
              LET before == ledger_hist[k].before
                  after == ledger_hist[k].after
                  fill == ledger_hist[k].fill
              IN  /\ after.quantity = DecSub(before.quantity, fill.quantity)
                  /\ DecLt(after.quantity, Zero)
                  /\ after.average_price = before.average_price
                  /\ after.cash =
                       DecAdd(before.cash,
                              DecSub(DecMul(fill.quantity, fill.price), fill.fee))
                  /\ after.realized_pnl =
                       DecAdd(before.realized_pnl,
                              DecSub(DecMul(DecSub(fill.price, before.average_price),
                                            fill.quantity),
                                     fill.fee))

\* A sell of 1 from the flat ledger, with a fee, and later a sell of more
\* than a held position, at a price other than its average price.
C24_Witness ==
    /\ Len(ledger_hist) = 3
    /\ Oversell(1)
    /\ ledger_hist[1].before.quantity = Zero
    /\ ledger_hist[1].fill.fee # Zero
    /\ ledger_hist[1].after.quantity = D(-1)
    /\ ledger_hist[1].after.cash = D(1099)
    /\ ledger_hist[1].after.realized_pnl = D(99)
    /\ Oversell(3)
    /\ DecGt(ledger_hist[3].before.quantity, Zero)
    /\ ledger_hist[3].fill.price # ledger_hist[3].before.average_price

\* a + b without rounding.
ExactSum(a, b) ==
    Norm(Aligned(a, MinExp(a, b)) + Aligned(b, MinExp(a, b)), MinExp(a, b))

\* The sum of the fees of the buys among the first n fills.
RECURSIVE BuyFees(_)
BuyFees(n) ==
    IF n = 0 THEN Zero
    ELSE IF ledger_hist[n].fill.side = BUY
         THEN ExactSum(BuyFees(n - 1), ledger_hist[n].fill.fee)
         ELSE BuyFees(n - 1)

\* Every fill so far has left a quantity >= 0.
NeverShort ==
    \A k \in 1..Len(ledger_hist) : ~DecLt(ledger_hist[k].after.quantity, Zero)

\* Every division so far was exact: no buy's average price was rounded.
ExactDivisions ==
    \A k \in 1..Len(ledger_hist) :
        ledger_hist[k].fill.side = BUY => ExactAverage(k)

\* initial_cash + realized_pnl - (the fees of all buy fills).
CashBasis ==
    ExactDifference(ExactSum(InitialCash,
                             LedgerValue(portfolio, positions).realized_pnl),
                    BuyFees(Len(ledger_hist)))

---------------------------------------------------------------------------
(* Properties of two runs (SpecPair)                                       *)

MinLen(a, b) ==
    IF Len(a) < Len(b) THEN Len(a) ELSE Len(b)

\* The number of leading bars on which the two bar sequences agree.
AgreeLen ==
    CHOOSE L \in 0..MinLen(bars, twin.bars) :
        /\ \A k \in 1..L : bars[k] = twin.bars[k]
        /\ L = MinLen(bars, twin.bars) \/ bars[L + 1] # twin.bars[L + 1]

\* The values of the states run s recorded for its first n bars (those it
\* has recorded so far).
StatesUpTo(s, n) ==
    [k \in 1..(IF Len(s.recorder._states) < n THEN Len(s.recorder._states) ELSE n) |->
        StateValue(s.positions, s.snapshots, s.recorder._states[k])]

\* The orders run s executed against bars of index below n, with their fills.
ExecutedBefore(s, n) ==
    LET Early(x) == x.bar < n
    IN  SelectSeq(s.executed, Early)

\* The orders run s created on bars of index below n; the last of them, if
\* created on bar n-1, is the order pending at the start of bar n.
CreatedBefore(s, n) ==
    LET Early(o) == \E k \in 1..n : k <= Len(s.bars) /\ o.timestamp = s.bars[k].timestamp
    IN  SelectSeq(s.created, Early)

\* The fills run s made at the bar of index n.
FillsAt(s, n) ==
    LET At(x) == x.bar = n
        Pick(q) == [k \in 1..Len(q) |-> q[k].fill]
    IN  Pick(SelectSeq(s.executed, At))

\* Run s has passed the fill of the bar of index n.
PastFill(s, n) ==
    s.i > n \/ (s.i = n /\ s.pc \in {"record", "decide"})

\* C2: no look-ahead.  With L the number of leading bars on which the two
\* bar sequences agree: the states recorded for bars 0..L-1, the fills
\* made on those bars and the orders created on them (so the order pending
\* at the start of bar L) are the same in both runs; and when bar L has the
\* same open and timestamp in both, so is the fill made at bar L.
C2_NoLookAhead ==
    /\ StatesUpTo(Self, AgreeLen) = StatesUpTo(twin, AgreeLen)
    /\ ExecutedBefore(Self, AgreeLen) = ExecutedBefore(twin, AgreeLen)
    /\ CreatedBefore(Self, AgreeLen) = CreatedBefore(twin, AgreeLen)
    /\ pc = "done" /\ twin.pc = "done" => Len(StatesUpTo(Self, AgreeLen)) = AgreeLen
    /\ i = AgreeLen /\ twin.i = AgreeLen /\ pc = "fill" /\ twin.pc = "fill" =>
         pending_order = twin.pending_order
    /\ ( /\ AgreeLen < MinLen(bars, twin.bars)
         /\ bars[AgreeLen + 1].open = twin.bars[AgreeLen + 1].open
         /\ bars[AgreeLen + 1].timestamp = twin.bars[AgreeLen + 1].timestamp )
       => /\ FillsAt(Self, AgreeLen) = FillsAt(twin, AgreeLen)
          /\ PastFill(Self, AgreeLen) = PastFill(twin, AgreeLen)

\* Two finished runs whose bars agree on a first bar and then differ in a
\* close only: the same fill was made at that bar, and the states recorded
\* for it differ.
C2_Witness ==
    /\ pc = "done"
    /\ twin.pc = "done"
    /\ AgreeLen >= 1
    /\ AgreeLen < MinLen(bars, twin.bars)
    /\ bars[AgreeLen + 1].open = twin.bars[AgreeLen + 1].open
    /\ bars[AgreeLen + 1].close # twin.bars[AgreeLen + 1].close
    /\ Len(FillsAt(Self, AgreeLen)) = 1
    /\ StatesUpTo(Self, AgreeLen + 1) # StatesUpTo(twin, AgreeLen + 1)
    /\ strategy.kind = "momentum"
    /\ created # twin.created

---------------------------------------------------------------------------
(* Properties of the execution simulator (SpecExecute)                     *)

\* a >= b
DecGe(a, b) ==
    ~DecLt(a, b)

\* C12 as claimed: for every order, every fill bar with open >= 0 and every
\* cost configuration with fee_pct >= 0 and slippage_pct >= 0, the fee of
\* the fill returned by execute is non-negative, for buys and for sells.
C12_FeeNonNegative ==
    \A k \in 1..Len(executed) :
        ( /\ DecGe(bars[executed[k].bar + 1].open, Zero)
          /\ DecGe(execution._fee_pct, Zero)
          /\ DecGe(execution._slippage_pct, Zero) )
        => DecGe(executed[k].fill.fee, Zero)

\* C13: execute returns a fill for every order and bar (open >= 0); the
\* fill carries the order's symbol, side and quantity and the fill bar's
\* timestamp; its price is open * (1 + slippage_pct) for a buy and
\* open * (1 - slippage_pct) for a sell; so with slippage_pct >= 0 a buy
\* is never filled below the open and a sell never above it.
C13_FillFromOpen ==
    \A k \in 1..Len(executed) :
        LET x == executed[k]
            fill_bar == bars[x.bar + 1]
        IN  /\ x.fill.symbol = x.order.symbol
            /\ x.fill.side = x.order.side
            /\ x.fill.quantity = x.order.quantity
            /\ x.fill.timestamp = fill_bar.timestamp
            /\ x.order.side = BUY =>
                 /\ x.fill.price =
                      DecMul(fill_bar.open, DecAdd(One, execution._slippage_pct))
                 /\ DecGe(x.fill.price, fill_bar.open)
            /\ x.order.side = SELL =>
                 /\ x.fill.price =
                      DecMul(fill_bar.open, DecSub(One, execution._slippage_pct))
                 /\ DecGe(fill_bar.open, x.fill.price)

\* A buy filled above the open and then a sell filled below it, under a
\* slippage of 10%, against bars whose close is not their open.
C13_Witness ==
    /\ pc = "execute"
    /\ Len(executed) = 2
    /\ execution._slippage_pct = Norm(1, -1)
    /\ executed[1].order.side = BUY
    /\ executed[2].order.side = SELL
    /\ DecGt(executed[1].fill.price, bars[1].open)
    /\ DecLt(executed[2].fill.price, bars[2].open)
    /\ bars[1].close # bars[1].open
    /\ executed[2].fill.timestamp # executed[2].order.timestamp

---------------------------------------------------------------------------
(* Properties of the shipped strategies (SpecShipped)                      *)

\* The strategy has been constructed.
Constructed ==
    pc \notin {"construct", "config_error"}

\* The quantity the ledger held when the order was created: that of the
\* state recorded on the order's bar.
HeldAt(order) ==
    Recorded(BarIndex(order.timestamp) + 1).quantity

\* C14 as claimed: in a run driven by MomentumStrategy or DualMAStrategy,
\* whatever arguments the constructor accepted, no target returned is
\* below zero, no sell order is larger than the quantity held when it is
\* created, and the ledger's quantity is never below zero.
C14_NeverShort ==
    Constructed =>
        /\ \A k \in 1..Len(targets_hist) : DecGe(targets_hist[k], Zero)
        /\ \A j \in 1..Len(created) :
             created[j].side = SELL => DecGe(HeldAt(created[j]), created[j].quantity)
        /\ DecGe(LedgerValue(portfolio, positions).quantity, Zero)

\* The number of calls a shipped strategy answers with 0 whatever the bars.
WarmUp ==
    IF strategy.kind = "momentum" THEN strategy._lookback - 1 ELSE strategy._slow - 1

\* C15: warm-up.  Every call of MomentumStrategy.next before the
\* lookback-th, and every call of DualMAStrategy.next before the
\* slow_lookback-th, returned exactly 0.
C15_WarmUp ==
    Constructed =>
        \A k \in 1..Len(targets_hist) : k <= WarmUp => targets_hist[k] = Zero

\* A momentum strategy of lookback 3 answered 0 twice and then its size.
C15_Witness ==
    /\ Constructed
    /\ strategy.kind = "momentum"
    /\ strategy._lookback = 3
    /\ Len(targets_hist) = 3
    /\ targets_hist[1] = Zero
    /\ targets_hist[2] = Zero
    /\ targets_hist[3] = strategy._size
    /\ strategy._size # Zero

\* C16: over fewer bars than the lookback (slow_lookback for dual-MA), a
\* run from a flat ledger creates no order and records no fill, leaves
\* cash and position as they were, and records one state per bar.
C16_ShortHistory ==
    Constructed /\ Len(bars) <= WarmUp =>
        /\ created = <<>>
        /\ pending_order = <<>>
        /\ recorder._trades = <<>>
        /\ ledger_hist = <<>>
        /\ LedgerValue(portfolio, positions) =
             [cash |-> InitialCash, quantity |-> Zero, average_price |-> Zero,
              realized_pnl |-> Zero]
        /\ Len(recorder._states) = BarsRecorded
        /\ \A k \in 1..Len(recorder._states) :
             /\ Recorded(k).timestamp = bars[k].timestamp
             /\ Recorded(k).cash = InitialCash
             /\ Recorded(k).quantity = Zero
             /\ Recorded(k).equity = InitialCash
        /\ pc = "done" => Len(recorder._states) = Len(bars)

\* A dual-MA strategy of slow lookback 3 has run over two bars of
\* different closes.
C16_Witness ==
    /\ pc = "done"
    /\ strategy.kind = "dual_ma"
    /\ strategy._slow = 3
    /\ Len(bars) = 2
    /\ bars[1].close # bars[2].close
    /\ Len(recorder._states) = 2
    /\ Len(targets_hist) = 2

\* The arguments of a constructor call are ones the constructor must
\* refuse.
BadArguments(call) ==
    IF call.kind = "momentum" THEN call.lookback < 1
    ELSE \/ call.fast_lookback < 1
         \/ call.slow_lookback < 1
         \/ call.fast_lookback >= call.slow_lookback

---------------------------------------------------------------------------
(* Properties of the metrics (SpecMetrics, SpecSharpe)                     *)

\* The equity curve of the recorder, as the metrics read it.
Curve ==
    equity_series(recorder, snapshots)

\* The metrics have been computed.
Reported ==
    metrics # <<>>

NonDecreasing(eq, from, to) ==
    \A k \in from..(to - 1) : FLe(eq[k], eq[k + 1])

NonIncreasing(eq, from, to) ==
    \A k \in from..(to - 1) : FLe(eq[k + 1], eq[k])

\* The curve rises to a peak eq[a] > 0, falls to a trough eq[b] below it
\* and then recovers.
RiseFallRecover(eq, a, b) ==
    /\ 1 <= a /\ a < b /\ b < Len(eq)
    /\ NonDecreasing(eq, 1, a)
    /\ NonIncreasing(eq, a, b)
    /\ NonDecreasing(eq, b, Len(eq))
    /\ FGt(eq[a], FZero)
    /\ FLt(eq[b], eq[a])
    /\ FGt(eq[Len(eq)], eq[b])

\* The drawdown of eq[k] from the peak eq[a] > 0: (fraction, magnitude).
DrawdownAt(eq, a, k) ==
    <<FDiv(FSub(eq[a], eq[k]), eq[a]), FSub(eq[a], eq[k])>>

\* C18 as claimed: max_drawdown returns fraction 0 for every
\* non-decreasing equity sequence, and for a sequence that rises to a peak
\* P > 0, falls to a trough T < P and then recovers it returns the
\* fraction (P-T)/P together with the magnitude P-T measured at that
\* trough.
C18_MaxDrawdown ==
    Reported /\ metrics[1].max_drawdown.raised = NoError =>
        LET eq == Curve
            dd == metrics[1].max_drawdown.value
        IN  /\ NonDecreasing(eq, 1, Len(eq)) => dd[1] = FZero
            /\ \A a, b \in 1..Len(eq) :
                   RiseFallRecover(eq, a, b) => dd = DrawdownAt(eq, a, b)

\* The first point of the fall from eq[a] to eq[b] whose drawdown fraction
\* is the trough's.
FirstDeepest(eq, a, b) ==
    CHOOSE k \in a..b :
        /\ DrawdownAt(eq, a, k)[1] = DrawdownAt(eq, a, b)[1]
        /\ \A j \in a..(k - 1) : DrawdownAt(eq, a, j)[1] # DrawdownAt(eq, a, b)[1]

\* C18, amended: max_drawdown returns fraction 0 for every non-decreasing
\* equity sequence, and for a sequence that rises to a peak P > 0, falls
\* to a trough T < P and then recovers it returns the fraction (P-T)/P as
\* float arithmetic computes it, with the magnitude of the drawdown at the
\* first point of the fall where the computed fraction reaches that
\* maximum.  That point is the trough, and the magnitude P-T, unless the
\* fraction of an earlier point of the fall rounds to the trough's.
C18_MaxDrawdownAmended ==
    Reported =>
        /\ metrics[1].max_drawdown.raised = NoError
        /\ LET eq == Curve
               dd == metrics[1].max_drawdown.value
           IN  /\ NonDecreasing(eq, 1, Len(eq)) => dd[1] = FZero
               /\ \A a, b \in 1..Len(eq) :
                      RiseFallRecover(eq, a, b) =>
                         /\ dd[1] = DrawdownAt(eq, a, b)[1]
                         /\ dd[2] = DrawdownAt(eq, a, FirstDeepest(eq, a, b))[2]
                         /\ FirstDeepest(eq, a, b) = b => dd = DrawdownAt(eq, a, b)

\* The drawdown was computed for a curve that rises from 860 to the peak
\* 1728, falls to 860 and recovers only to 862: the maximum (868/1728,
\* 868) was reported, not the drawdown of 866 at the end.
C18_Witness ==
    /\ Reported
    /\ Curve = <<FInt(860), FInt(1728), FInt(860), FInt(862)>>
    /\ RiseFallRecover(Curve, 2, 3)
    /\ metrics[1].max_drawdown = Returned(DrawdownAt(Curve, 2, 3))
    /\ DrawdownAt(Curve, 2, 3)[2] = FInt(868)
    /\ DrawdownAt(Curve, 2, 4) # DrawdownAt(Curve, 2, 3)

\* The list `returns` of sharpe_ratio for the curve.
CurveReturns ==
    sharpe_returns(Curve, Len(Curve) - 1).value

\* C19 as claimed: sharpe_ratio returns None, never zero and never an
\* error, whenever the recorder has fewer than 3 states, no bar-to-bar
\* return has a positive previous equity, or the returns have zero
\* standard deviation (they are all equal); in particular it returns None
\* for every perfectly flat equity curve of any length.
C19_SharpeUndefined ==
    Reported =>
        LET eq == Curve
            sharpe == metrics[1].sharpe_ratio
        IN  /\ sharpe.raised = NoError
            /\ ( \/ Len(eq) < 3
                 \/ \A k \in 1..(Len(eq) - 1) : FLe(eq[k], FZero)
                 \/ \A j, k \in 1..Len(CurveReturns) : CurveReturns[j] = CurveReturns[k] )
               => sharpe.value = None
            /\ (\A j, k \in 1..Len(eq) : eq[j] = eq[k]) => sharpe.value = None

\* The placeholder summary of compute_metrics.
Placeholder ==
    [total_return_pct |-> FZero, max_drawdown_pct |-> FZero,
     max_drawdown_abs |-> FZero, num_trades |-> 0, sharpe_ratio |-> None,
     initial_equity |-> FZero, final_equity |-> FZero, num_bars |-> 0]

\* C20: metrics are total over degenerate input.  For every recorder log
\* (empty, a single state, zero or negative equities) total_return,
\* max_drawdown and compute_metrics return without raising; total_return
\* is 0 when there are fewer than 2 states or the initial equity is <= 0,
\* max_drawdown is (0, 0) for fewer than 2 states, and compute_metrics on
\* zero states returns the all-zero placeholder with sharpe None, 0 trades
\* and 0 bars.
C20_MetricsTotal ==
    Reported =>
        LET states == recorder._states
            m == metrics[1]
        IN  /\ m.total_return.raised = NoError
            /\ m.max_drawdown.raised = NoError
            /\ m.summary.raised = NoError
            /\ Len(states) < 2 => m.total_return.value = FZero
            /\ ( /\ Len(states) >= 1
                 /\ ~DecGt(snapshots[states[1]].equity, Zero) )
               => m.total_return.value = FZero
            /\ Len(states) < 2 => m.max_drawdown.value = <<FZero, FZero>>
            /\ Len(states) = 0 => m.summary.value = Placeholder

\* The metrics of a log of three states whose initial equity is 0 and
\* whose later equities are 1000 and -100 were computed: total_return is
\* 0 and the summary reports the three bars and the trade.
C20_Witness ==
    /\ Reported
    /\ Len(recorder._states) = 3
    /\ snapshots[recorder._states[1]].equity = D(0)
    /\ snapshots[recorder._states[2]].equity = D(1000)
    /\ snapshots[recorder._states[3]].equity = D(-100)
    /\ Len(recorder._trades) = 1
    /\ metrics[1].total_return = Returned(FZero)
    /\ metrics[1].summary.raised = NoError
    /\ metrics[1].summary.value.num_bars = 3
    /\ metrics[1].summary.value.num_trades = 1
    /\ metrics[1].summary.value.final_equity = FNeg(FInt(100))

---------------------------------------------------------------------------
(* Properties of the methods called directly (SpecCalls)                   *)

\* The call the step has made.
LastCall ==
    calls'[Len(calls')]

\* C21: read operations are pure.  Every call other than apply_fill
\* (equity_at, unrealized_pnl_at, state_at at any price, and execute)
\* leaves the ledger object and what its cash, position and realized_pnl
\* read unchanged, so that apply_fill is the only operation that changes
\* ledger state; and execute changes neither the ledger, the recorder nor
\* the order it is given.
C21_ReadsArePure ==
    [][ /\ Len(calls') = Len(calls) + 1
        /\ LastCall.op # "apply_fill" =>
              /\ portfolio' = portfolio
              /\ LedgerValue(portfolio', positions') = LedgerValue(portfolio, positions)
              /\ ledger_hist' = ledger_hist
        /\ LastCall.op = "execute" =>
              /\ recorder' = recorder
              /\ pending_order' = pending_order
              /\ LastCall.args[1] = pending_order[1]
              /\ positions' = positions /\ snapshots' = snapshots ]_vars

\* After a buy of 2 at 100, state_at at the price 102 (unrealized PnL 4) and
\* then execute have been called, and the ledger still holds what the buy
\* left: cash 799, 2 held at the average 100.
C21_Witness ==
    /\ Len(calls) = 3
    /\ calls[1].op = "apply_fill"
    /\ calls[2].op = "state_at"
    /\ calls[2].args[1] = D(102)
    /\ snapshots[calls[2].result[1]].unrealized_pnl = D(4)
    /\ calls[3].op = "execute"
    /\ LedgerValue(portfolio, positions) =
         [cash |-> D(799), quantity |-> D(2), average_price |-> D(100),
          realized_pnl |-> Zero]

====
